---- MODULE Spec2Model ----
(***************************************************************************)
(* A model of data_pipeline's consumer offset tracking (BaseConsumer in    *)
(* base_consumer.py) and of the producer's retry engine (RetryHandler in   *)
(* _producer_retry.py).                                                    *)
(*                                                                         *)
(* CommitSpec, RebalanceSpec, AckSpec and LifecycleSpec are the consumer:  *)
(* the commit operations with the offset cache, the post-rebalance         *)
(* notification, failing broker calls, and the lifecycle with the refresh  *)
(* of topics.  IssuedSpec keeps the offsets issued to the broker beside    *)
(* the cache, NotifySpec the notifications handled in a row.  BatchSpec is *)
(* commit_messages as a function.  RetrySpec and LedgerSpec are one        *)
(* RetryHandler over a sequence of retry rounds, LoopSpec is a handler     *)
(* driven by a fair retry loop, and StatsSpec is the addition of _Stats.   *)
(***************************************************************************)
EXTENDS Integers, Sequences, FiniteSets, TLC

\* ------------------------------------------------------------------------
\* Bounds and universes
\* ------------------------------------------------------------------------

\* Largest offset a caller hands to commit_offsets, and one more than the
\* largest offset of a consumed message.
MaxOffset == 2

\* Longest list of messages handed to commit_messages.
MaxBatch == 3

\* Most (topic, partition) entries in one commit_offsets argument.
MaxEntries == 2

\* Most topics a consumer source yields to refresh_topics.
MaxSource == 2

Topics == {"t1", "t2"}

\* The partitions of a topic: t1 has two, t2 has one.
PartitionsOf(t) == IF t = "t1" THEN {0, 1} ELSE {0}

Partitions == UNION {PartitionsOf(t) : t \in Topics}

TopicPartitions == {k \in Topics \X Partitions : k[2] \in PartitionsOf(k[1])}

\* The partial functions from subsets of D to R (a Python dict).
PartialFns(D, R) == UNION {[S -> R] : S \in SUBSET D}

\* The empty dict.
EmptyMap == <<>>

\* ------------------------------------------------------------------------
\* Consumer state (BaseConsumer)
\* ------------------------------------------------------------------------
VARIABLES
    running,
    topic_to_partition_map,
    topic_to_partition_offset_map_cache,
    cache_exists,
    temp_topic_to_consumer_topic_state_map,
    broker_calls,
    committed_since_reset,
    last_op,
    connection,
    post_rebalance_callback,
    last_detail

consumer_vars == <<running, topic_to_partition_map,
                   topic_to_partition_offset_map_cache, cache_exists,
                   temp_topic_to_consumer_topic_state_map, broker_calls,
                   committed_since_reset, last_op, connection,
                   post_rebalance_callback, last_detail>>

\* A value of topic_to_partition_map: None, or a list of partitions.
NoPartitions == [known |-> FALSE, partitions |-> {}]

KnownPartitions(ps) == [known |-> TRUE, partitions |-> ps]

\* A value of the constructor's state map: None, or a ConsumerTopicState.
NoTopicState == [is_none |-> TRUE, partition_offset_map |-> EmptyMap]

ConsumerTopicState(pom) == [is_none |-> FALSE, partition_offset_map |-> pom]

\* A state map with offsets for one partition of t1 and no state for t2.
StateMapWithOffsets ==
    [t \in {"t1", "t2"} |->
        IF t = "t1" THEN ConsumerTopicState([p \in {0} |-> 1])
                    ELSE NoTopicState]

\* The state maps a consumer is constructed with.
InitialStateMaps ==
    {EmptyMap, [t \in {"t1"} |-> NoTopicState], StateMapWithOffsets}

\* _set_topic_to_partition_map: the partitions of each topic's state, None
\* for a topic without state.
SetTopicToPartitionMap(state_map) ==
    [t \in DOMAIN state_map |->
        IF state_map[t].is_none
        THEN NoPartitions
        ELSE KnownPartitions(DOMAIN state_map[t].partition_offset_map)]

\* The (topic, partition) keys of a topic -> partition -> offset map.
Keys(m) == {k \in TopicPartitions :
                k[1] \in DOMAIN m /\ k[2] \in DOMAIN m[k[1]]}

\* The (topic, partition, offset) entries of such a map.
Entries(m) == {<<k[1], k[2], m[k[1]][k[2]]>> : k \in Keys(m)}

\* reset_topic_to_partition_offset_cache: a new, empty defaultdict(dict).
ResetCache == EmptyMap

\* The condition with the comparison of the offsets left out.
NeedsCommitWhenAbsent(cache, t, p, offset) ==
    <<t, p>> \notin Keys(cache)

\* The condition of _get_offsets_map_to_be_committed: the partition is not in
\* the cache of the topic, or the cached offset differs.
NeedsCommit(cache, t, p, offset) ==
    \/ <<t, p>> \notin Keys(cache)
    \/ cache[t][p] # offset

\* _get_offsets_map_to_be_committed, its result: the entries of the argument
\* that pass the condition.
FilteredMap(cache, m) ==
    LET kept(t) == {p \in DOMAIN m[t] : NeedsCommit(cache, t, p, m[t][p])}
        ts == {t \in DOMAIN m : kept(t) # {}}
    IN  [t \in ts |-> [p \in kept(t) |-> m[t][p]]]

\* The cache left unwritten when the request is made.
CacheUnwrittenAfterCommit(cache, m) == cache

\* _get_offsets_map_to_be_committed, its effect on the cache: every entry
\* that passes the condition is written.
CacheAfterCommit(cache, m) ==
    LET f == FilteredMap(cache, m)
        ts == DOMAIN cache \cup DOMAIN f
        old(t) == IF t \in DOMAIN cache THEN cache[t] ELSE EmptyMap
        new(t) == IF t \in DOMAIN f THEN f[t] ELSE EmptyMap
    IN  [t \in ts |->
            [p \in DOMAIN old(t) \cup DOMAIN new(t) |->
                IF p \in DOMAIN new(t) THEN new(t)[p] ELSE old(t)[p]]]

\* The broker call made only for a list of several requests.
SendOffsetCommitRequestsWhenSeveral(requests) ==
    IF Cardinality(requests) > 1 THEN <<requests>> ELSE <<>>

\* _send_offset_commit_requests: one broker call with the request list, none
\* for an empty list.
SendOffsetCommitRequests(requests) ==
    IF Cardinality(requests) > 0 THEN <<requests>> ELSE <<>>

\* The payload of the broker call of the last operation, empty without one.
Payload(calls) == IF calls = <<>> THEN {} ELSE calls[1]

\* commit_offsets on a cache: the broker calls it makes.
CommitOffsetsCalls(cache, m) ==
    SendOffsetCommitRequests(Entries(FilteredMap(cache, m)))

\* A consumed message: its topic and kafka_position_info.
Messages ==
    {msg \in [topic : Topics, partition : Partitions, offset : 0 .. (MaxOffset - 1)] :
        msg.partition \in PartitionsOf(msg.topic)}

\* The loop body of commit_messages for one message.
CommitMessagesStep(acc, message) ==
    LET partition_offset_map ==
            IF message.topic \in DOMAIN acc THEN acc[message.topic] ELSE EmptyMap
        max_offset ==
            IF message.partition \in DOMAIN partition_offset_map
            THEN partition_offset_map[message.partition] ELSE 0
        larger == IF message.offset > max_offset THEN message.offset ELSE max_offset
        updated ==
            [p \in DOMAIN partition_offset_map \cup {message.partition} |->
                IF p = message.partition THEN larger + 1
                ELSE partition_offset_map[p]]
    IN  [t \in DOMAIN acc \cup {message.topic} |->
            IF t = message.topic THEN updated ELSE acc[t]]

\* commit_messages: the map it hands to commit_offsets.
RECURSIVE CommitMessagesMap(_)
CommitMessagesMap(messages) ==
    IF messages = <<>> THEN EmptyMap
    ELSE CommitMessagesStep(
             CommitMessagesMap(SubSeq(messages, 1, Len(messages) - 1)),
             messages[Len(messages)])

\* A topic -> partition -> offset map from a set of (topic, partition,
\* offset) entries with distinct keys.
MapOf(entries) ==
    [t \in {e[1] : e \in entries} |->
        [p \in {e[2] : e \in {x \in entries : x[1] = t}} |->
            (CHOOSE e \in entries : e[1] = t /\ e[2] = p)[3]]]

\* The arguments of commit_offsets with at most n entries.
OffsetMapsUpTo(n) ==
    {MapOf({<<k[1], k[2], f[k]>> : k \in ks}) :
        <<ks, f>> \in UNION {{<<ks2, g>> : g \in [ks2 -> 1 .. MaxOffset]} :
                         ks2 \in {x \in SUBSET TopicPartitions : Cardinality(x) <= n}}}

OffsetMaps == OffsetMapsUpTo(MaxEntries)

\* The message lists of length at most n.
MessageListsUpTo(n) == UNION {[1 .. k -> Messages] : k \in 0 .. n}

\* The arguments of commit_messages.
MessageLists == MessageListsUpTo(MaxBatch)

\* The assignments a post-rebalance notification carries: some topics, each
\* with some of its partitions.
Assignments ==
    UNION {{a \in [S -> (SUBSET Partitions) \ {{}}] :
               \A t \in S : a[t] \subseteq PartitionsOf(t)} : S \in SUBSET Topics}

NoRebalance == [delivered |-> FALSE, partitions |-> EmptyMap, failed |-> FALSE]

Rebalance(a) == [delivered |-> TRUE, partitions |-> a, failed |-> FALSE]

\* The subclass _start raises.
StartFailure == [delivered |-> FALSE, partitions |-> EmptyMap, failed |-> TRUE]

\* What the group coordination does while the subclass _start runs: nothing
\* yet, or a post-rebalance notification.
StartOutcomes == {NoRebalance} \cup {Rebalance(a) : a \in Assignments}

\* The new map as the assignment merged into the map before it.
MapAfterRebalanceMerged(partitions) ==
    [key \in DOMAIN topic_to_partition_map \cup DOMAIN partitions |->
        IF key \in DOMAIN partitions THEN KnownPartitions(partitions[key])
        ELSE topic_to_partition_map[key]]

\* The new map with the assigned partitions left out.
MapAfterRebalanceWithoutPartitions(partitions) ==
    [key \in DOMAIN partitions |-> NoPartitions]

\* The new topic_to_partition_map of _apply_post_rebalance_callback_to_partition.
MapAfterRebalance(partitions) ==
    [key \in DOMAIN partitions |-> KnownPartitions(partitions[key])]

\* What an operation records of itself: its name, the offsets it handed to
\* commit_offsets, the assignment it handled and the exception it raised.
Op(name, offsets, partitions, raised) ==
    [name |-> name, offsets |-> offsets, partitions |-> partitions,
     raised |-> raised]

\* What an operation records beside its Op: the steps it completed, the
\* calls of the user's post-rebalance callback it made (each with the
\* assignment passed and the map and cache the callback finds), the topics
\* of the source and the list returned (refresh_topics), whether the body of
\* the context raised and how the stop failed (__exit__, stop).
Detail(steps, callback_calls, source, returned, body_raised, stop_failure) ==
    [steps |-> steps, callback_calls |-> callback_calls, source |-> source,
     returned |-> returned, body_raised |-> body_raised,
     stop_failure |-> stop_failure]

NoDetail == Detail(<<>>, <<>>, <<>>, <<>>, FALSE, "none")

\* The connection after the broker calls of an operation: the client
\* connects to send a request.
ConnectionAfterCalls(calls, before) ==
    IF calls # <<>> THEN "open" ELSE before

\* The user's callback called before the map and the cache are replaced.
PostRebalanceCallbackCalledFirst(callback, partitions, map_before, cache_before) ==
    IF callback
    THEN <<[partitions |-> partitions, map |-> map_before, cache |-> cache_before]>>
    ELSE <<>>

\* The end of _apply_post_rebalance_callback_to_partition: the user's
\* callback, when one was supplied, is called with the assignment after the
\* map was replaced and the cache reset.
PostRebalanceCallbackCalls(callback, partitions, map_before, cache_before) ==
    IF callback
    THEN <<[partitions |-> partitions, map |-> MapAfterRebalance(partitions),
            cache |-> ResetCache]>>
    ELSE <<>>

\* BaseConsumer.__init__ with one of the given state maps, with or without
\* a post-rebalance callback.
ConsumerInit(state_maps, callbacks) ==
    /\ temp_topic_to_consumer_topic_state_map \in state_maps
    /\ post_rebalance_callback \in callbacks
    /\ connection = "unopened"
    /\ last_detail = NoDetail
    /\ running = FALSE
    /\ topic_to_partition_map =
           SetTopicToPartitionMap(temp_topic_to_consumer_topic_state_map)
    /\ topic_to_partition_offset_map_cache = EmptyMap
    /\ cache_exists = FALSE
    /\ broker_calls = <<>>
    /\ committed_since_reset = {}
    /\ last_op = Op("init", EmptyMap, EmptyMap, "none")

\* commit_offsets(m).  The cache attribute exists only after the first
\* reset (start, stop or a post-rebalance notification).
\* The broker call of commit_offsets (send_offset_commit_request) succeeds
\* or raises; the exception leaves commit_offsets.
CommitOffsets(m, acknowledged) ==
    /\ cache_exists
    /\ acknowledged \/ CommitOffsetsCalls(topic_to_partition_offset_map_cache, m) # <<>>
    /\ topic_to_partition_offset_map_cache' =
           CacheAfterCommit(topic_to_partition_offset_map_cache, m)
    /\ broker_calls' = CommitOffsetsCalls(topic_to_partition_offset_map_cache, m)
    /\ committed_since_reset' = committed_since_reset \cup Keys(m)
    /\ last_op' = Op("commit_offsets", m, EmptyMap,
                     IF acknowledged THEN "none" ELSE "BrokerError")
    /\ connection' = ConnectionAfterCalls(broker_calls', connection)
    /\ last_detail' = NoDetail
    /\ UNCHANGED <<running, topic_to_partition_map, cache_exists,
                   temp_topic_to_consumer_topic_state_map,
                   post_rebalance_callback>>

\* commit_messages(messages): builds the candidate map and defers to
\* commit_offsets.
CommitMessages(messages) ==
    LET m == CommitMessagesMap(messages) IN
    /\ cache_exists
    /\ topic_to_partition_offset_map_cache' =
           CacheAfterCommit(topic_to_partition_offset_map_cache, m)
    /\ broker_calls' = CommitOffsetsCalls(topic_to_partition_offset_map_cache, m)
    /\ committed_since_reset' = committed_since_reset \cup Keys(m)
    /\ last_op' = Op("commit_messages", m, EmptyMap, "none")
    /\ connection' = ConnectionAfterCalls(broker_calls', connection)
    /\ last_detail' = NoDetail
    /\ UNCHANGED <<running, topic_to_partition_map, cache_exists,
                   temp_topic_to_consumer_topic_state_map,
                   post_rebalance_callback>>

\* The cache after a stop that does not reset it.
CacheKeptAfterStop(cache) == cache

\* The cache after stop: reset_topic_to_partition_offset_cache is called.
CacheAfterStop(cache) == ResetCache

\* How a stop fails: not at all, in the subclass _stop, or in the close of
\* the connection.
StopFailures == {"none", "_stop", "close"}

\* The steps of a stop that closes and resets only a running consumer.
StopStepsWhenRunning(was_running, failure) ==
    IF ~was_running THEN <<"running=False">>
    ELSE IF failure = "_stop" THEN <<>>
    ELSE IF failure = "close" THEN <<"_stop">>
    ELSE <<"_stop", "close", "reset_cache", "running=False">>

\* The steps stop() completes: the subclass _stop when running, the close of
\* the connection, the cache reset, running cleared; a failure ends it.
StopSteps(was_running, failure) ==
    IF was_running /\ failure = "_stop" THEN <<>>
    ELSE (IF was_running THEN <<"_stop">> ELSE <<>>)
         \o (IF failure = "close" THEN <<>>
             ELSE <<"close", "reset_cache", "running=False">>)

\* Whether a step is among the steps completed.
Did(steps, step) == \E i \in DOMAIN steps : steps[i] = step

\* The consumer after stop(): the fields it changes, and the exception.
StopResult(was_running, failure, cache, exists, conn) ==
    LET steps == StopSteps(was_running, failure)
    IN  [steps |-> steps,
         running |-> IF Did(steps, "running=False") THEN FALSE ELSE was_running,
         cache |-> IF Did(steps, "reset_cache") THEN CacheAfterStop(cache) ELSE cache,
         cache_exists |-> exists \/ Did(steps, "reset_cache"),
         connection |-> IF Did(steps, "close") THEN "closed" ELSE conn,
         raised |-> IF failure = "none" THEN "none" ELSE "StopError"]

\* stop(), with the failure it meets; the subclass _stop can fail only when
\* it is called.
Stop(failure) ==
    /\ failure = "_stop" => running
    /\ \E stopped \in {StopResult(running, failure,
                                  topic_to_partition_offset_map_cache,
                                  cache_exists, connection)} :
          /\ topic_to_partition_offset_map_cache' = stopped.cache
          /\ cache_exists' = stopped.cache_exists
          /\ running' = stopped.running
          /\ connection' = stopped.connection
          /\ committed_since_reset' =
                 IF Did(stopped.steps, "reset_cache") THEN {}
                 ELSE committed_since_reset
          /\ last_op' = Op("stop", EmptyMap, EmptyMap, stopped.raised)
          /\ last_detail' = Detail(stopped.steps, <<>>, <<>>, <<>>, FALSE, failure)
    /\ broker_calls' = <<>>
    /\ UNCHANGED <<topic_to_partition_map,
                   temp_topic_to_consumer_topic_state_map,
                   post_rebalance_callback>>

\* The exception that leaves __exit__ when a failure of stop always
\* replaces the one of the body.
ExitRaisesStopFailure(body_raised, stop_failed) ==
    IF stop_failed THEN "StopError"
    ELSE IF body_raised THEN "BodyError" ELSE "none"

\* The exception that leaves the with statement: __exit__ re-raises the
\* failure of stop only when the body raised nothing, and returns False so
\* that the exception of the body propagates.
ExitRaises(body_raised, stop_failed) ==
    IF body_raised THEN "BodyError"
    ELSE IF stop_failed THEN "StopError" ELSE "none"

\* __exit__(exc_type, exc_value, traceback) at the end of the context.
Exit(body_raised, failure) ==
    /\ failure = "_stop" => running
    /\ \E stopped \in {StopResult(running, failure,
                                  topic_to_partition_offset_map_cache,
                                  cache_exists, connection)} :
          /\ topic_to_partition_offset_map_cache' = stopped.cache
          /\ cache_exists' = stopped.cache_exists
          /\ running' = stopped.running
          /\ connection' = stopped.connection
          /\ committed_since_reset' =
                 IF Did(stopped.steps, "reset_cache") THEN {}
                 ELSE committed_since_reset
          /\ last_op' = Op("__exit__", EmptyMap, EmptyMap,
                           ExitRaises(body_raised, stopped.raised # "none"))
          /\ last_detail' = Detail(<<"stop">> \o stopped.steps, <<>>, <<>>, <<>>,
                                   body_raised, failure)
    /\ broker_calls' = <<>>
    /\ UNCHANGED <<topic_to_partition_map,
                   temp_topic_to_consumer_topic_state_map,
                   post_rebalance_callback>>

\* The cache after _apply_post_rebalance_callback_to_partition.
CacheAfterRebalance(cache) == ResetCache

\* _apply_post_rebalance_callback_to_partition(partitions), delivered by the
\* group coordination of a running consumer.
PostRebalance(partitions) ==
    /\ running
    /\ topic_to_partition_map' = MapAfterRebalance(partitions)
    /\ topic_to_partition_offset_map_cache' =
           CacheAfterRebalance(topic_to_partition_offset_map_cache)
    /\ cache_exists' = TRUE
    /\ broker_calls' = <<>>
    /\ committed_since_reset' = {}
    /\ last_op' = Op("post_rebalance", EmptyMap, partitions, "none")
    /\ last_detail' =
           Detail(<<"topic_to_partition_map", "reset_cache">>
                      \o (IF post_rebalance_callback THEN <<"callback">> ELSE <<>>),
                  PostRebalanceCallbackCalls(
                      post_rebalance_callback, partitions, topic_to_partition_map,
                      topic_to_partition_offset_map_cache),
                  <<>>, <<>>, FALSE, "none")
    /\ UNCHANGED <<running, temp_topic_to_consumer_topic_state_map, connection,
                   post_rebalance_callback>>

\* A pre-rebalance notification of a running consumer.  The consumer hands
\* the user's pre_rebalance_callback to the KafkaConsumerConfig as it is and
\* has no handler of its own: the notification changes no field of it.
PreRebalance(partitions) ==
    /\ running
    /\ broker_calls' = <<>>
    /\ last_op' = Op("pre_rebalance", EmptyMap, partitions, "none")
    /\ last_detail' = NoDetail
    /\ UNCHANGED <<running, topic_to_partition_map,
                   topic_to_partition_offset_map_cache, cache_exists,
                   temp_topic_to_consumer_topic_state_map,
                   committed_since_reset, connection, post_rebalance_callback>>

\* _commit_topic_map_offsets: the offsets of the topics that have a state.
TopicMapOffsets(state_map) ==
    [t \in {u \in DOMAIN state_map : ~state_map[u].is_none} |->
        state_map[t].partition_offset_map]

\* _start_consumer without the check of running.
StartConsumerNeverRaises(is_running) == "none"

\* The exception _start_consumer raises before it calls the subclass
\* _start: a RuntimeError when the consumer is running.
StartConsumerRaises(is_running) ==
    IF is_running THEN "RuntimeError" ELSE "none"

\* start(): resets the cache, commits the offsets of the initial state map
\* (nothing for an empty state map), then _start_consumer, which raises when
\* the consumer is running and otherwise runs the subclass _start (during
\* which the group coordination may already deliver an assignment, and which
\* may raise) and then sets running.
Start(outcome) ==
    LET m == TopicMapOffsets(temp_topic_to_consumer_topic_state_map)
        commits == temp_topic_to_consumer_topic_state_map # EmptyMap
        committed == IF commits THEN CacheAfterCommit(ResetCache, m)
                     ELSE ResetCache
    IN
    /\ cache_exists' = TRUE
    /\ broker_calls' = IF commits THEN CommitOffsetsCalls(ResetCache, m) ELSE <<>>
    /\ connection' = ConnectionAfterCalls(broker_calls', connection)
    /\ IF StartConsumerRaises(running) # "none" \/ outcome.failed
       THEN /\ running => outcome = NoRebalance
            /\ topic_to_partition_offset_map_cache' = committed
            /\ committed_since_reset' = IF commits THEN Keys(m) ELSE {}
            /\ last_op' = Op("start", m, EmptyMap,
                             IF StartConsumerRaises(running) # "none"
                             THEN StartConsumerRaises(running) ELSE "StartError")
            /\ last_detail' = Detail(<<"reset_cache", "commit">>, <<>>, <<>>, <<>>,
                                     FALSE, "none")
            /\ UNCHANGED <<running, topic_to_partition_map>>
       ELSE /\ running' = TRUE
            /\ last_op' = Op("start", m, outcome.partitions, "none")
            /\ last_detail' =
                   Detail(<<"reset_cache", "commit", "_start", "running=True">>,
                          IF outcome.delivered
                          THEN PostRebalanceCallbackCalls(
                                   post_rebalance_callback, outcome.partitions,
                                   topic_to_partition_map, committed)
                          ELSE <<>>,
                          <<>>, <<>>, FALSE, "none")
            /\ IF outcome.delivered
               THEN /\ topic_to_partition_map' =
                           MapAfterRebalance(outcome.partitions)
                    /\ topic_to_partition_offset_map_cache' =
                           CacheAfterRebalance(committed)
                    /\ committed_since_reset' = {}
               ELSE /\ topic_to_partition_offset_map_cache' = committed
                    /\ committed_since_reset' = IF commits THEN Keys(m) ELSE {}
                    /\ UNCHANGED topic_to_partition_map
    /\ UNCHANGED <<temp_topic_to_consumer_topic_state_map,
                   post_rebalance_callback>>

\* The lists of topics a consumer source yields.
TopicSources == UNION {[1 .. n -> Topics] : n \in 0 .. MaxSource}

\* The topics of the source taken as new whether tracked or not.
NewTopicsUnfiltered(topics, map) == topics

\* The topics of the source that are not in topic_to_partition_map.
NewTopics(topics, map) ==
    LET untracked(t) == t \notin DOMAIN map IN SelectSeq(topics, untracked)

\* _update_topic_to_partition_map: each new topic is entered with None.
UpdateTopicToPartitionMap(map, new_topics) ==
    LET added == {new_topics[i] : i \in DOMAIN new_topics}
    IN  [t \in DOMAIN map \cup added |->
            IF t \in added THEN NoPartitions ELSE map[t]]

\* The new topics returned without a look at the map.
ReturnedTopicsUnfiltered(new_topics, map) == new_topics

\* The list refresh_topics returns after a restart: the new topics that
\* are in topic_to_partition_map.
ReturnedTopics(new_topics, map) ==
    LET tracked(t) == t \in DOMAIN map IN SelectSeq(new_topics, tracked)

\* refresh_topics(consumer_source): with a new topic, stop(), the map
\* extended, _start_consumer (during which the group coordination may
\* already deliver an assignment); the stop is taken not to fail.
RefreshTopics(topics, outcome) ==
    LET new_topics == NewTopics(topics, topic_to_partition_map) IN
    IF new_topics = <<>>
    THEN /\ outcome = NoRebalance
         /\ last_op' = Op("refresh_topics", EmptyMap, EmptyMap, "none")
         /\ last_detail' = Detail(<<>>, <<>>, topics, <<>>, FALSE, "none")
         /\ broker_calls' = <<>>
         /\ UNCHANGED <<running, topic_to_partition_map,
                        topic_to_partition_offset_map_cache, cache_exists,
                        temp_topic_to_consumer_topic_state_map,
                        committed_since_reset, connection,
                        post_rebalance_callback>>
    ELSE \E stopped \in {StopResult(running, "none",
                                     topic_to_partition_offset_map_cache,
                                     cache_exists, connection)} :
         \E extended \in {UpdateTopicToPartitionMap(topic_to_partition_map,
                                                    new_topics)} :
            /\ running' = TRUE
            /\ topic_to_partition_map' =
                   IF outcome.delivered THEN MapAfterRebalance(outcome.partitions)
                   ELSE extended
            /\ topic_to_partition_offset_map_cache' =
                   IF outcome.delivered THEN CacheAfterRebalance(stopped.cache)
                   ELSE stopped.cache
            /\ cache_exists' = TRUE
            /\ connection' = stopped.connection
            /\ broker_calls' = <<>>
            /\ committed_since_reset' = {}
            /\ last_op' = Op("refresh_topics", EmptyMap, outcome.partitions, "none")
            /\ last_detail' =
                   Detail(<<"stop">> \o stopped.steps
                              \o <<"_update_topic_to_partition_map",
                                   "_start_consumer">>,
                          IF outcome.delivered
                          THEN PostRebalanceCallbackCalls(
                                   post_rebalance_callback, outcome.partitions,
                                   extended, stopped.cache)
                          ELSE <<>>,
                          topics,
                          ReturnedTopics(new_topics, topic_to_partition_map'),
                          FALSE, "none")
            /\ UNCHANGED <<temp_topic_to_consumer_topic_state_map,
                           post_rebalance_callback>>

\* ------------------------------------------------------------------------
\* commit_messages as a function of its argument
\* ------------------------------------------------------------------------
VARIABLES
    batch,
    candidate_map,
    batch_committed

batch_vars == <<batch, candidate_map, batch_committed>>

BatchInit(lists) ==
    /\ batch \in lists
    /\ candidate_map = EmptyMap
    /\ batch_committed = FALSE

\* commit_messages(batch) up to its call of commit_offsets.
CommitBatch ==
    /\ ~batch_committed
    /\ candidate_map' = CommitMessagesMap(batch)
    /\ batch_committed' = TRUE
    /\ UNCHANGED batch

\* ------------------------------------------------------------------------
\* Producer retry state (RetryHandler)
\* ------------------------------------------------------------------------

\* Most messages in one request.
MaxMsgs == 3

\* Most calls of update_unpublished_requests on one handler.
MaxRounds == 2

RetryTopics == {"topicA"}

RetryPartitions == {0, 1}

\* The offsets a produce response reports.
ResponseOffsets == {10, 11}

\* The offsets a producer has tracked for a topic at the start of a round.
TrackedOffsets == {7}

VARIABLES
    initial_requests,
    requests_to_be_sent,
    publish_guarantee,
    success_topic_stats_map,
    success_topic_accum_stats_map,
    rounds,
    last_call

retry_vars == <<initial_requests, requests_to_be_sent, publish_guarantee,
                success_topic_stats_map, success_topic_accum_stats_map,
                rounds, last_call>>

\* A list of n opaque payloads.
Payloads(n) == [i \in 1 .. n |-> "m"]

\* The publish requests: a topic, a partition and at least two messages.
Requests ==
    [topic : RetryTopics, partition : RetryPartitions,
     messages : {Payloads(n) : n \in 2 .. MaxMsgs}]

\* The (topic, partition) of a request.
KeyOf(request) == <<request.topic, request.partition>>

\* The sum of f over the finite set S.
RECURSIVE SumOver(_, _)
SumOver(f, S) ==
    IF S = {} THEN 0
    ELSE LET x == CHOOSE y \in S : TRUE IN f[x] + SumOver(f, S \ {x})

\* A request of topicA with n messages.
RequestA(partition, n) ==
    [topic |-> "topicA", partition |-> partition, messages |-> Payloads(n)]

\* The (topic, partition) keys of the requests.
RetryKeys == RetryTopics \X RetryPartitions

\* _TopicPartition(topic_name, partition).
TopicPartition(topic, partition) == <<topic, partition>>

\* _Stats(offset, message_count).
Stats(offset, message_count) ==
    [offset |-> offset, message_count |-> message_count]

\* The addition that keeps the offset of its left operand.
AddStatsKeepingOffset(self, other) ==
    Stats(self.offset, self.message_count + other.message_count)

\* _Stats.__add__ on two _Stats.
AddStats(self, other) ==
    Stats(self.offset + other.offset,
          self.message_count + other.message_count)

\* A ProduceResponse with its error code, or the exception of a failed
\* payload.
ProduceResponse(topic, partition, error, offset) ==
    [is_exception |-> FALSE, topic |-> topic, partition |-> partition,
     error |-> error, offset |-> offset]

FailedPayloadsError(topic, partition) ==
    [is_exception |-> TRUE, topic |-> topic, partition |-> partition,
     error |-> 0, offset |-> 0]

\* The classification with the error code left out.
IsSuccessResponseIgnoringError(response) ==
    ~response.is_exception

\* _is_success_response.
IsSuccessResponse(response) ==
    ~response.is_exception /\ response.error = 0

\* The dict of the success responses by (topic, partition); a later response
\* replaces an earlier one of the same key.
RECURSIVE SuccessResponses(_)
SuccessResponses(responses) ==
    IF responses = <<>> THEN EmptyMap
    ELSE LET before == SuccessResponses(SubSeq(responses, 1, Len(responses) - 1))
             r == responses[Len(responses)]
             key == <<r.topic, r.partition>>
         IN  IF IsSuccessResponse(r)
             THEN [k \in DOMAIN before \cup {key} |->
                      IF k = key THEN r ELSE before[k]]
             ELSE before

\* The two stats maps of a handler.
StatsMaps(round_map, accum_map) == [round |-> round_map, accum |-> accum_map]

\* The stats update that keeps, as cumulative stats, the stats of the round.
UpdateSuccessTopicStatsOfRound(maps, topic, partition, new_stats) ==
    LET key == TopicPartition(topic, partition)
        round_map == [k \in DOMAIN maps.round \cup {key} |->
                         IF k = key THEN new_stats ELSE maps.round[k]]
    IN  StatsMaps(round_map, round_map)

\* The stats update with the cumulative stats replaced instead of added to.
UpdateSuccessTopicStatsReplacing(maps, topic, partition, new_stats) ==
    LET key == TopicPartition(topic, partition)
    IN  StatsMaps(
            [k \in DOMAIN maps.round \cup {key} |->
                IF k = key THEN new_stats ELSE maps.round[k]],
            [k \in DOMAIN maps.accum \cup {key} |->
                IF k = key THEN new_stats ELSE maps.accum[k]])

\* _update_success_topic_stats: the stats of the round are set, the
\* cumulative stats are added to.
UpdateSuccessTopicStats(maps, topic, partition, new_stats) ==
    LET key == TopicPartition(topic, partition)
        accum_stats == IF key \in DOMAIN maps.accum THEN maps.accum[key]
                       ELSE Stats(0, 0)
    IN  StatsMaps(
            [k \in DOMAIN maps.round \cup {key} |->
                IF k = key THEN new_stats ELSE maps.round[k]],
            [k \in DOMAIN maps.accum \cup {key} |->
                IF k = key THEN AddStats(accum_stats, new_stats)
                ELSE maps.accum[k]])

\* The pass that records a confirmed request and retries it all the same.
UpdateSuccessStepRetryingAll(before, request, success_responses) ==
    IF <<request.topic, request.partition>> \notin DOMAIN success_responses
    THEN [requests_to_retry |-> Append(before.requests_to_retry, request),
          maps |-> before.maps]
    ELSE [requests_to_retry |-> Append(before.requests_to_retry, request),
          maps |-> UpdateSuccessTopicStats(
                       before.maps, request.topic, request.partition,
                       Stats(success_responses[<<request.topic,
                                                 request.partition>>].offset,
                             Len(request.messages)))]

\* The pass that lets a success response confirm one request only.
UpdateSuccessStepOncePerKey(before, request, success_responses) ==
    IF \/ <<request.topic, request.partition>> \notin DOMAIN success_responses
       \/ <<request.topic, request.partition>> \in DOMAIN before.maps.round
    THEN [requests_to_retry |-> Append(before.requests_to_retry, request),
          maps |-> before.maps]
    ELSE [requests_to_retry |-> before.requests_to_retry,
          maps |-> UpdateSuccessTopicStats(
                       before.maps, request.topic, request.partition,
                       Stats(success_responses[<<request.topic,
                                                 request.partition>>].offset,
                             Len(request.messages)))]

\* The pass that counts one message for each answered request.
UpdateSuccessStepCountingRequests(before, request, success_responses) ==
    IF <<request.topic, request.partition>> \notin DOMAIN success_responses
    THEN [requests_to_retry |-> Append(before.requests_to_retry, request),
          maps |-> before.maps]
    ELSE [requests_to_retry |-> before.requests_to_retry,
          maps |-> UpdateSuccessTopicStats(
                       before.maps, request.topic, request.partition,
                       Stats(success_responses[<<request.topic,
                                                 request.partition>>].offset,
                             1))]

\* One pass of the loop of _update_success_requests_stats.
UpdateSuccessStep(before, request, success_responses) ==
    IF <<request.topic, request.partition>> \notin DOMAIN success_responses
    THEN [requests_to_retry |-> Append(before.requests_to_retry, request),
          maps |-> before.maps]
    ELSE [requests_to_retry |-> before.requests_to_retry,
          maps |-> UpdateSuccessTopicStats(
                       before.maps, request.topic, request.partition,
                       Stats(success_responses[<<request.topic,
                                                 request.partition>>].offset,
                             Len(request.messages)))]

\* The pass over the requests that first records the offset of every success
\* response, also of one that answers no request.
RECURSIVE UpdateSuccessRequestsStatsOfResponses(_, _, _, _)
UpdateSuccessRequestsStatsOfResponses(requests, success_responses, maps, n) ==
    IF n = 0
    THEN [requests_to_retry |-> <<>>,
          maps |->
              StatsMaps(
                  maps.round,
                  [k \in DOMAIN maps.accum \cup DOMAIN success_responses |->
                      IF k \in DOMAIN success_responses
                      THEN AddStats(IF k \in DOMAIN maps.accum
                                    THEN maps.accum[k] ELSE Stats(0, 0),
                                    Stats(success_responses[k].offset, 0))
                      ELSE maps.accum[k]])]
    ELSE UpdateSuccessStep(
             UpdateSuccessRequestsStatsOfResponses(requests, success_responses,
                                                   maps, n - 1),
             requests[n], success_responses)

\* _update_success_requests_stats on the first n requests: the requests
\* without a success response, and the stats maps.
RECURSIVE UpdateSuccessRequestsStats(_, _, _, _)
UpdateSuccessRequestsStats(requests, success_responses, maps, n) ==
    IF n = 0 THEN [requests_to_retry |-> <<>>, maps |-> maps]
    ELSE UpdateSuccessStep(
             UpdateSuccessRequestsStats(requests, success_responses, maps, n - 1),
             requests[n], success_responses)

\* What the broker answers to the watermark query of one disputed request,
\* and to the metadata load that may follow it.
PublishedCount(count) ==
    [watermark |-> "count", count |-> count, metadata |-> "not_loaded"]

UnknownTopicOrPartitions(kind, metadata) ==
    [watermark |-> kind, count |-> 0, metadata |-> metadata]

WatermarkError == [watermark |-> "error", count |-> 0, metadata |-> "not_loaded"]

QueryOutcomes ==
    {PublishedCount(c) : c \in 0 .. MaxMsgs}
    \cup {UnknownTopicOrPartitions(kind, metadata) :
             kind \in {"unknown_topic", "unknown_partitions"},
             metadata \in {"loaded", "leader_not_available", "error"}}
    \cup {WatermarkError}

\* The metadata load without the handler of LeaderNotAvailableError.
TryLoadTopicMetadataLoadedOnly(metadata) ==
    metadata = "loaded"

\* _try_load_topic_metadata: retry when the load succeeds or the leader is
\* not available.
TryLoadTopicMetadata(metadata) ==
    metadata \in {"loaded", "leader_not_available"}

\* The stats of a hidden success with the fields of _Stats in the other
\* order.
HiddenSuccessStatsSwapped(published_count, tracked_offset) ==
    Stats(published_count, published_count + tracked_offset)

\* The stats of a hidden success without the tracked offset.
HiddenSuccessStatsUntracked(published_count, tracked_offset) ==
    Stats(published_count, published_count)

\* The stats of a request found published by the watermark.
HiddenSuccessStats(published_count, tracked_offset) ==
    Stats(published_count + tracked_offset, published_count)

\* The loop body that takes any published count above zero for a success.
VerifyRequestAcceptingPartial(request, outcome, topic_offsets) ==
    CASE outcome.watermark = "count" ->
            IF outcome.count = 0
            THEN [decision |-> "retry", stats |-> Stats(0, 0)]
            ELSE [decision |-> "success",
                  stats |-> HiddenSuccessStats(outcome.count,
                                               topic_offsets[request.topic])]
      [] outcome.watermark \in {"unknown_topic", "unknown_partitions"} ->
            IF TryLoadTopicMetadata(outcome.metadata)
            THEN [decision |-> "retry", stats |-> Stats(0, 0)]
            ELSE [decision |-> "drop", stats |-> Stats(0, 0)]
      [] OTHER -> [decision |-> "drop", stats |-> Stats(0, 0)]

\* The loop body without the handler of the other exceptions.
VerifyRequestUncaught(request, outcome, topic_offsets) ==
    CASE outcome.watermark = "count" ->
            IF Len(request.messages) # outcome.count
            THEN [decision |-> "retry", stats |-> Stats(0, 0)]
            ELSE [decision |-> "success",
                  stats |-> HiddenSuccessStats(outcome.count,
                                               topic_offsets[request.topic])]
      [] outcome.watermark \in {"unknown_topic", "unknown_partitions"} ->
            IF TryLoadTopicMetadata(outcome.metadata)
            THEN [decision |-> "retry", stats |-> Stats(0, 0)]
            ELSE [decision |-> "drop", stats |-> Stats(0, 0)]
      [] OTHER -> [decision |-> "raise", stats |-> Stats(0, 0)]

\* The body of the loop of _verify_failed_requests for one request: what
\* becomes of the request, with the stats to record for a success.
VerifyRequest(request, outcome, topic_offsets) ==
    CASE outcome.watermark = "count" ->
            IF Len(request.messages) # outcome.count
            THEN [decision |-> "retry", stats |-> Stats(0, 0)]
            ELSE [decision |-> "success",
                  stats |-> HiddenSuccessStats(outcome.count,
                                               topic_offsets[request.topic])]
      [] outcome.watermark \in {"unknown_topic", "unknown_partitions"} ->
            IF TryLoadTopicMetadata(outcome.metadata)
            THEN [decision |-> "retry", stats |-> Stats(0, 0)]
            ELSE [decision |-> "drop", stats |-> Stats(0, 0)]
      [] OTHER -> [decision |-> "drop", stats |-> Stats(0, 0)]

\* The pass that puts a request to retry in front of those before it.
VerifyStepPrepending(before, n, request, outcome, verdict) ==
    [requests_to_retry |->
         IF verdict.decision = "retry"
         THEN <<request>> \o before.requests_to_retry
         ELSE before.requests_to_retry,
     retried |->
         IF verdict.decision = "retry"
         THEN before.retried \cup {n} ELSE before.retried,
     maps |->
         IF verdict.decision = "success"
         THEN UpdateSuccessTopicStats(before.maps, request.topic,
                                      request.partition, verdict.stats)
         ELSE before.maps,
     queries |-> Append(before.queries, request.topic),
     loads |->
         IF outcome.metadata = "not_loaded" THEN before.loads
         ELSE Append(before.loads, request.topic),
     raised |-> "none"]

\* The pass that also retries a request it found published.
VerifyStepRetryingSuccess(before, n, request, outcome, verdict) ==
    [requests_to_retry |->
         IF verdict.decision \in {"retry", "success"}
         THEN Append(before.requests_to_retry, request)
         ELSE before.requests_to_retry,
     retried |->
         IF verdict.decision \in {"retry", "success"}
         THEN before.retried \cup {n} ELSE before.retried,
     maps |->
         IF verdict.decision = "success"
         THEN UpdateSuccessTopicStats(before.maps, request.topic,
                                      request.partition, verdict.stats)
         ELSE before.maps,
     queries |-> Append(before.queries, request.topic),
     loads |->
         IF outcome.metadata = "not_loaded" THEN before.loads
         ELSE Append(before.loads, request.topic),
     raised |-> "none"]

\* One pass of the loop of _verify_failed_requests: the state of the loop
\* after the passes before it, the request and the broker's answer for it.
VerifyStep(before, n, request, outcome, verdict) ==
    IF before.raised # "none" THEN before
    ELSE [requests_to_retry |->
              IF verdict.decision = "retry"
              THEN Append(before.requests_to_retry, request)
              ELSE before.requests_to_retry,
          retried |->
              IF verdict.decision = "retry"
              THEN before.retried \cup {n} ELSE before.retried,
          maps |->
              IF verdict.decision = "success"
              THEN UpdateSuccessTopicStats(before.maps, request.topic,
                                           request.partition, verdict.stats)
              ELSE before.maps,
          queries |-> Append(before.queries, request.topic),
          loads |->
              IF outcome.metadata = "not_loaded" THEN before.loads
              ELSE Append(before.loads, request.topic),
          raised |->
              IF verdict.decision \in {"retry", "success", "drop"} THEN "none"
              ELSE "Exception"]

\* _verify_failed_requests on the first n requests: the requests to retry
\* and their places in the list, the stats maps, the topics queried and
\* loaded, and the exception that ended the loop.
RECURSIVE VerifyFailedRequests(_, _, _, _, _)
VerifyFailedRequests(requests, oracle, topic_offsets, maps, n) ==
    IF n = 0
    THEN [requests_to_retry |-> <<>>, retried |-> {}, maps |-> maps,
          queries |-> <<>>, loads |-> <<>>, raised |-> "none"]
    ELSE VerifyStep(
             VerifyFailedRequests(requests, oracle, topic_offsets, maps, n - 1),
             n, requests[n], oracle[n],
             VerifyRequest(requests[n], oracle[n], topic_offsets))

\* total_published_message_count.
RECURSIVE SumMessageCounts(_, _)
SumMessageCounts(accum_map, keys) ==
    IF keys = {} THEN 0
    ELSE LET k == CHOOSE x \in keys : TRUE
         IN  accum_map[k].message_count + SumMessageCounts(accum_map, keys \ {k})

total_published_message_count ==
    SumMessageCounts(success_topic_accum_stats_map,
                     DOMAIN success_topic_accum_stats_map)

\* has_unpublished_request computed from the stats of the last round.
has_unpublished_request_this_round ==
    LET request_topics_partitions ==
            {<<initial_requests[i].topic, initial_requests[i].partition>> :
                i \in DOMAIN initial_requests}
        response_topics_partitions ==
            {<<key[1], key[2]>> : key \in DOMAIN success_topic_stats_map}
    IN  ~(request_topics_partitions \subseteq response_topics_partitions)

\* has_unpublished_request computed from the retry set.
has_unpublished_request_pending ==
    requests_to_be_sent # <<>>

\* has_unpublished_request.
has_unpublished_request ==
    LET request_topics_partitions ==
            {<<initial_requests[i].topic, initial_requests[i].partition>> :
                i \in DOMAIN initial_requests}
        response_topics_partitions ==
            {<<key[1], key[2]>> : key \in DOMAIN success_topic_accum_stats_map}
    IN  ~(request_topics_partitions \subseteq response_topics_partitions)

AtLeastOnce == "at_least_once"

ExactOnce == "exact_once"

\* What a call records of itself: the requests and the cumulative stats it
\* found, the success responses it was given, the tracked offsets, the
\* requests it found disputed, the broker's answers for them, the places of
\* the disputed requests it retried, the topics it queried and loaded, the
\* exception it raised, and whether its responses, tracked offsets and
\* broker's answers repeat those of the call before it.
Call(requests_before, accum_before, success_responses, topic_offsets, disputed, oracle, retried, queries, loads, raised, repeats) ==
    [requests_before |-> requests_before, accum_before |-> accum_before,
     success_responses |-> success_responses, topic_offsets |-> topic_offsets,
     disputed |-> disputed, oracle |-> oracle, retried |-> retried,
     queries |-> queries, loads |-> loads, raised |-> raised,
     repeats |-> repeats]

NoCall ==
    Call(<<>>, EmptyMap, EmptyMap, EmptyMap, <<>>, <<>>, {}, <<>>, <<>>,
         "none", FALSE)

\* The elements of a list at the places in keep, in their order.
RECURSIVE Pick(_, _, _)
Pick(list, keep, n) ==
    IF n = 0 THEN <<>>
    ELSE IF n \in keep THEN Append(Pick(list, keep, n - 1), list[n])
         ELSE Pick(list, keep, n - 1)

\* Whether the inputs of a call repeat those of the call recorded in
\* previous: the same success responses and tracked offsets, and for each
\* request retried the same answers of the broker.
Repeats(previous, round, success_responses, topic_offsets, oracle) ==
    /\ round > 0
    /\ success_responses = previous.success_responses
    /\ topic_offsets = previous.topic_offsets
    /\ oracle = Pick(previous.oracle, previous.retried, Len(previous.oracle))

\* RetryHandler.__init__ with one of the given request lists.
RetryInit(request_lists, guarantees) ==
    /\ initial_requests \in request_lists
    /\ requests_to_be_sent = initial_requests
    /\ publish_guarantee \in guarantees
    /\ success_topic_stats_map = EmptyMap
    /\ success_topic_accum_stats_map = EmptyMap
    /\ rounds = 0
    /\ last_call = NoCall

\* The request lists a handler is constructed with: one request, or two.
RequestLists ==
    {<<r>> : r \in Requests} \cup {<<r1, r2>> : r1 \in Requests, r2 \in Requests}

\* What the broker answers to one request: a ProduceResponse with a success
\* or an error code, or a FailedPayloadsError.
AnswersTo(request) ==
    {FailedPayloadsError(request.topic, request.partition),
     ProduceResponse(request.topic, request.partition, 1, 0)}
    \cup {ProduceResponse(request.topic, request.partition, 0, offset) :
             offset \in ResponseOffsets}

\* The response lists for the first n of the requests sent: one answer to
\* each request, in their order.
RECURSIVE ResponseLists(_, _)
ResponseLists(requests, n) ==
    IF n = 0 THEN {<<>>}
    ELSE {Append(before, answer) :
             before \in ResponseLists(requests, n - 1),
             answer \in AnswersTo(requests[n])}

\* The handler after update_unpublished_requests: the new value of every
\* field, and what the call did.
AfterUpdate(guarantee, requests, accum_map, responses, topic_offsets, oracle) ==
    LET success_responses == SuccessResponses(responses)
        first == UpdateSuccessRequestsStats(
                     requests, success_responses,
                     StatsMaps(EmptyMap, accum_map), Len(requests))
    IN  IF guarantee = ExactOnce
        THEN LET verified == VerifyFailedRequests(
                                 first.requests_to_retry, oracle, topic_offsets,
                                 first.maps, Len(first.requests_to_retry))
             IN  [requests_to_be_sent |->
                      IF verified.raised = "none"
                      THEN verified.requests_to_retry ELSE requests,
                  maps |-> verified.maps,
                  success_responses |-> success_responses,
                  disputed |-> first.requests_to_retry,
                  retried |-> verified.retried,
                  queries |-> verified.queries,
                  loads |-> verified.loads,
                  raised |-> verified.raised]
        ELSE [requests_to_be_sent |-> first.requests_to_retry,
              maps |-> first.maps,
              success_responses |-> success_responses,
              disputed |-> first.requests_to_retry,
              retried |-> DOMAIN first.requests_to_retry,
              queries |-> <<>>,
              loads |-> <<>>,
              raised |-> "none"]

\* update_unpublished_requests(responses, topic_offsets), with the broker's
\* answers to the queries it makes.
UpdateUnpublishedRequests(responses, topic_offsets, oracle) ==
    /\ rounds < MaxRounds
    /\ rounds' = rounds + 1
    /\ \E after \in {AfterUpdate(publish_guarantee, requests_to_be_sent,
                                 success_topic_accum_stats_map, responses,
                                 topic_offsets, oracle)} :
          /\ requests_to_be_sent' = after.requests_to_be_sent
          /\ success_topic_stats_map' = after.maps.round
          /\ success_topic_accum_stats_map' = after.maps.accum
          /\ last_call' =
                 Call(requests_to_be_sent, success_topic_accum_stats_map,
                      after.success_responses, topic_offsets, after.disputed,
                      oracle, after.retried, after.queries, after.loads,
                      after.raised,
                      Repeats(last_call, rounds, after.success_responses,
                              topic_offsets, oracle))
    /\ UNCHANGED <<initial_requests, publish_guarantee>>

\* The requests that update_unpublished_requests finds disputed.
Disputed(requests, responses) ==
    UpdateSuccessRequestsStats(requests, SuccessResponses(responses),
                               StatsMaps(EmptyMap, EmptyMap),
                               Len(requests)).requests_to_retry

\* The broker's answers to the queries of a call: one for each disputed
\* request under the exact-once guarantee, none otherwise.
Oracles(guarantee, disputed) ==
    IF guarantee = ExactOnce THEN [DOMAIN disputed -> QueryOutcomes]
    ELSE {<<>>}

RetryNext ==
    \E responses \in ResponseLists(requests_to_be_sent, Len(requests_to_be_sent)) :
        \E topic_offsets \in [RetryTopics -> TrackedOffsets] :
            \E oracle \in Oracles(publish_guarantee,
                                  Disputed(requests_to_be_sent, responses)) :
                UpdateUnpublishedRequests(responses, topic_offsets, oracle)

\* The request list of a handler that is constructed and never used.
IdleRequestLists == {<<RequestA(0, 2)>>}

\* ------------------------------------------------------------------------
\* The handler with stray responses, and the ledger of what was confirmed
\* ------------------------------------------------------------------------
VARIABLES
    last_responses,
    confirmed_counts

ledger_vars == <<last_responses, confirmed_counts>>

\* Before the first call: no responses seen, nothing confirmed for any of
\* the keys.
LedgerInit(keys) ==
    /\ last_responses = <<>>
    /\ confirmed_counts = [k \in keys |-> 0]

\* The request lists of the handlers that are sent stray responses: one
\* request, two requests of two partitions, two requests of one partition.
LedgerRequestLists ==
    {<<RequestA(0, 2)>>, <<RequestA(0, 2), RequestA(1, 3)>>,
     <<RequestA(0, 2), RequestA(0, 3)>>}

\* What the broker answers to one request, with one success offset.
LedgerAnswersTo(request) ==
    {FailedPayloadsError(request.topic, request.partition),
     ProduceResponse(request.topic, request.partition, 1, 0),
     ProduceResponse(request.topic, request.partition, 0, 10)}

RECURSIVE LedgerAnswerLists(_, _)
LedgerAnswerLists(requests, n) ==
    IF n = 0 THEN {<<>>}
    ELSE {Append(before, answer) :
             before \in LedgerAnswerLists(requests, n - 1),
             answer \in LedgerAnswersTo(requests[n])}

\* A response that may answer no request of the round: a failure or a
\* success for any (topic, partition).
StrayResponses ==
    {FailedPayloadsError(k[1], k[2]) : k \in RetryKeys}
    \cup {ProduceResponse(k[1], k[2], 0, 11) : k \in RetryKeys}

\* The responses argument: one answer to each request sent, followed by at
\* most one more response.
LedgerResponseLists(requests) ==
    {answers \o extra :
        answers \in LedgerAnswerLists(requests, Len(requests)),
        extra \in {<<>>} \cup {<<r>> : r \in StrayResponses}}

\* The broker's answers to the watermark query of one disputed request: its
\* number of messages, no message, one message, one message more than it
\* has, an error, an unknown topic whose metadata cannot be loaded.
LedgerOutcomes(request) ==
    {PublishedCount(Len(request.messages)), PublishedCount(0),
     PublishedCount(1), PublishedCount(Len(request.messages) + 1),
     WatermarkError, UnknownTopicOrPartitions("unknown_topic", "error")}

LedgerOracles(guarantee, disputed) ==
    IF guarantee = ExactOnce
    THEN {oracle \in [DOMAIN disputed -> QueryOutcomes] :
             \A i \in DOMAIN disputed : oracle[i] \in LedgerOutcomes(disputed[i])}
    ELSE {<<>>}

\* The (topic, partition) keys of the responses that are not exceptions and
\* carry error code 0.
AnsweredKeys(responses) ==
    {<<responses[i].topic, responses[i].partition>> :
        i \in {j \in DOMAIN responses :
                 ~responses[j].is_exception /\ responses[j].error = 0}}

\* The number of messages of the requests of key k that one call confirms
\* published: those whose key has a success response and, under the
\* exact-once guarantee, those whose watermark count equals their number of
\* messages.
ConfirmedIn(guarantee, requests, responses, oracle, k) ==
    LET answered == AnsweredKeys(responses)
        place(i) == Cardinality({j \in 1 .. i : KeyOf(requests[j]) \notin answered})
        confirmed ==
            {i \in DOMAIN requests :
                /\ KeyOf(requests[i]) = k
                /\ \/ k \in answered
                   \/ /\ guarantee = ExactOnce
                      /\ oracle[place(i)].watermark = "count"
                      /\ oracle[place(i)].count = Len(requests[i].messages)}
    IN  SumOver([i \in confirmed |-> Len(requests[i].messages)], confirmed)

\* update_unpublished_requests with any responses, and the ledger kept
\* beside it.
LedgerNext ==
    \E responses \in LedgerResponseLists(requests_to_be_sent) :
        \E topic_offsets \in [RetryTopics -> TrackedOffsets] :
            \E oracle \in LedgerOracles(publish_guarantee,
                                        Disputed(requests_to_be_sent, responses)) :
                /\ UpdateUnpublishedRequests(responses, topic_offsets, oracle)
                /\ last_responses' = responses
                /\ confirmed_counts' =
                       [k \in RetryKeys |->
                           confirmed_counts[k]
                               + ConfirmedIn(publish_guarantee, requests_to_be_sent,
                                             responses, oracle, k)]

\* ------------------------------------------------------------------------
\* The retry loop of a caller, at least once
\* ------------------------------------------------------------------------

\* The request lists of a handler driven by the loop: those short enough
\* for every request to be confirmed in a round of its own.
LoopRequestLists == {list \in RequestLists : Len(list) <= MaxRounds}

\* One round of the loop: while requests_to_be_sent is not empty the caller
\* sends them and passes one answer for each to
\* update_unpublished_requests.
RetryRound(responses) ==
    /\ requests_to_be_sent # <<>>
    /\ \E topic_offsets \in [RetryTopics -> TrackedOffsets] :
           UpdateUnpublishedRequests(responses, topic_offsets, <<>>)

\* A round in which no request is answered with a success.  The loop is
\* bounded: such a round is run only while the rounds left are more than the
\* requests still to confirm.
FailedRound ==
    /\ rounds + Len(requests_to_be_sent) < MaxRounds
    /\ \E responses \in ResponseLists(requests_to_be_sent, Len(requests_to_be_sent)) :
           /\ AnsweredKeys(responses) = {}
           /\ RetryRound(responses)

\* A round in which at least one request is answered with a success.
ProgressRound ==
    \E responses \in ResponseLists(requests_to_be_sent, Len(requests_to_be_sent)) :
        /\ AnsweredKeys(responses) # {}
        /\ RetryRound(responses)

LoopNext == FailedRound \/ ProgressRound

\* ------------------------------------------------------------------------
\* _Stats addition as a function of its arguments
\* ------------------------------------------------------------------------

\* Largest offset and largest message count of a _Stats that is added.
MaxStat == 2

VARIABLES
    stats_a,
    stats_b,
    stats_c,
    stats_sums,
    stats_added

stats_vars == <<stats_a, stats_b, stats_c, stats_sums, stats_added>>

StatsValues == {Stats(offset, count) : offset \in 0 .. MaxStat, count \in 0 .. MaxStat}

NoSums ==
    [ab |-> Stats(0, 0), ba |-> Stats(0, 0), ab_c |-> Stats(0, 0),
     a_bc |-> Stats(0, 0), a_zero |-> Stats(0, 0)]

StatsInit(values) ==
    /\ stats_a \in values
    /\ stats_b \in values
    /\ stats_c \in values
    /\ stats_sums = NoSums
    /\ stats_added = FALSE

\* The sums a + b, b + a, (a + b) + c, a + (b + c) and a + _Stats(0, 0).
AddAll ==
    /\ ~stats_added
    /\ stats_sums' =
           [ab |-> AddStats(stats_a, stats_b),
            ba |-> AddStats(stats_b, stats_a),
            ab_c |-> AddStats(AddStats(stats_a, stats_b), stats_c),
            a_bc |-> AddStats(stats_a, AddStats(stats_b, stats_c)),
            a_zero |-> AddStats(stats_a, Stats(0, 0))]
    /\ stats_added' = TRUE
    /\ UNCHANGED <<stats_a, stats_b, stats_c>>

\* ------------------------------------------------------------------------
\* The commit requests issued to the broker since the last cache reset
\* ------------------------------------------------------------------------
VARIABLES
    issued_offsets

issued_vars == <<issued_offsets>>

\* No commit request issued for any (topic, partition).
NoneIssued == <<>>

IssuedInit(issued) ==
    issued_offsets = issued

\* The offsets last issued after a broker call with the given payload: the
\* payload's offset for each of its (topic, partition) keys, the offsets
\* issued before for the others.
IssuedAfterCalls(issued, payload) ==
    [k \in DOMAIN issued \cup {<<e[1], e[2]>> : e \in payload} |->
        IF \E e \in payload : <<e[1], e[2]>> = k
        THEN (CHOOSE e \in payload : <<e[1], e[2]>> = k)[3]
        ELSE issued[k]]

\* ------------------------------------------------------------------------
\* The rebalance notifications handled in a row
\* ------------------------------------------------------------------------

\* Most notifications handled in a row.
MaxNotes == 3

VARIABLES
    notifications

notification_vars == <<notifications>>

NotificationsInit(notes) ==
    notifications = notes

\* What is recorded of one notification: its kind, the assignment it
\* carries, and the map and the cache before and after it.
Note(kind, partitions, map_before, cache_before, map_after, cache_after) ==
    [kind |-> kind, partitions |-> partitions, map_before |-> map_before,
     cache_before |-> cache_before, map_after |-> map_after,
     cache_after |-> cache_after]

vars == <<consumer_vars, batch_vars, retry_vars, ledger_vars, stats_vars, issued_vars, notification_vars>>

\* ------------------------------------------------------------------------
\* Specifications
\* ------------------------------------------------------------------------

\* The two assignments the commit specification lets a rebalance deliver.
FewAssignments ==
    {[t \in {"t1"} |-> {0, 1}], [t \in {"t2"} |-> {0}]}

CommitNext ==
    \/ \E m \in OffsetMaps : CommitOffsets(m, TRUE)
    \/ \E messages \in MessageListsUpTo(1) : CommitMessages(messages)
    \/ Stop("none")
    \/ \E partitions \in FewAssignments : PostRebalance(partitions)
    \/ \E outcome \in {NoRebalance} \cup {Rebalance(a) : a \in FewAssignments} :
           Start(outcome)

\* The consumer with every commit argument and few assignments.
CommitSpec ==
    /\ ConsumerInit({StateMapWithOffsets}, {FALSE}) /\ BatchInit({<<>>})
    /\ RetryInit(IdleRequestLists, {AtLeastOnce})
    /\ LedgerInit(RetryKeys) /\ IssuedInit(NoneIssued) /\ NotificationsInit(<<>>) /\ StatsInit({Stats(0, 0)})
    /\ [][CommitNext /\ UNCHANGED <<batch_vars, retry_vars, ledger_vars, stats_vars, issued_vars, notification_vars>>]_vars

RebalanceNext ==
    \/ \E m \in OffsetMapsUpTo(1) : CommitOffsets(m, TRUE)
    \/ \E messages \in MessageListsUpTo(1) : CommitMessages(messages)
    \/ Stop("none")
    \/ \E partitions \in Assignments : PostRebalance(partitions)
    \/ \E outcome \in StartOutcomes : Start(outcome)

\* The consumer with every assignment and few commit arguments.
RebalanceSpec ==
    /\ ConsumerInit(InitialStateMaps, {FALSE}) /\ BatchInit({<<>>})
    /\ RetryInit(IdleRequestLists, {AtLeastOnce})
    /\ LedgerInit(RetryKeys) /\ IssuedInit(NoneIssued) /\ NotificationsInit(<<>>) /\ StatsInit({Stats(0, 0)})
    /\ [][RebalanceNext /\ UNCHANGED <<batch_vars, retry_vars, ledger_vars, stats_vars, issued_vars, notification_vars>>]_vars

AckNext ==
    \/ \E m \in OffsetMapsUpTo(1) : \E acknowledged \in BOOLEAN :
           CommitOffsets(m, acknowledged)
    \/ \E messages \in MessageListsUpTo(1) : CommitMessages(messages)
    \/ Stop("none")
    \/ \E partitions \in FewAssignments : PostRebalance(partitions)
    \/ \E outcome \in {NoRebalance} \cup {Rebalance(a) : a \in FewAssignments} :
           Start(outcome)

\* The consumer with broker calls that succeed or fail.
AckSpec ==
    /\ ConsumerInit({StateMapWithOffsets}, {FALSE}) /\ BatchInit({<<>>})
    /\ RetryInit(IdleRequestLists, {AtLeastOnce})
    /\ LedgerInit(RetryKeys) /\ IssuedInit(NoneIssued) /\ NotificationsInit(<<>>) /\ StatsInit({Stats(0, 0)})
    /\ [][AckNext /\ UNCHANGED <<batch_vars, retry_vars, ledger_vars, stats_vars, issued_vars, notification_vars>>]_vars

\* The operations of the consumer, with the record of the offsets issued
\* since the last reset kept beside them: a broker call adds its payload,
\* a reset of the cache (in stop, at the head of start, in the post-rebalance
\* handler) starts the record anew.
IssuedNext ==
    \/ \E m \in OffsetMapsUpTo(1) : \E acknowledged \in BOOLEAN :
           /\ CommitOffsets(m, acknowledged)
           /\ issued_offsets' = IssuedAfterCalls(issued_offsets, Payload(broker_calls'))
    \/ \E messages \in MessageListsUpTo(1) :
           /\ CommitMessages(messages)
           /\ issued_offsets' = IssuedAfterCalls(issued_offsets, Payload(broker_calls'))
    \/ \E failure \in StopFailures :
           /\ Stop(failure)
           /\ issued_offsets' =
                  IF Did(last_detail'.steps, "reset_cache") THEN NoneIssued
                  ELSE issued_offsets
    \/ \E partitions \in FewAssignments :
           /\ PostRebalance(partitions)
           /\ issued_offsets' = NoneIssued
    \/ \E outcome \in {NoRebalance} \cup {Rebalance(a) : a \in FewAssignments} :
           /\ Start(outcome)
           /\ issued_offsets' =
                  IF outcome.delivered THEN NoneIssued
                  ELSE IssuedAfterCalls(NoneIssued, Payload(broker_calls'))

\* The consumer with broker calls that succeed or fail, stops that fail, and
\* the record of the offsets issued.
IssuedSpec ==
    /\ ConsumerInit({StateMapWithOffsets}, {FALSE}) /\ BatchInit({<<>>})
    /\ RetryInit(IdleRequestLists, {AtLeastOnce})
    /\ LedgerInit(RetryKeys) /\ IssuedInit(NoneIssued) /\ NotificationsInit(<<>>) /\ StatsInit({Stats(0, 0)})
    /\ [][IssuedNext /\ UNCHANGED <<batch_vars, retry_vars, ledger_vars, stats_vars, notification_vars>>]_vars

\* The notifications of the group coordination, each recorded in a row
\* until another operation of the consumer starts a new row.
NotifyNext ==
    \/ \E partitions \in FewAssignments :
           /\ Len(notifications) < MaxNotes
           /\ PostRebalance(partitions)
           /\ notifications' =
                  Append(notifications,
                         Note("post", partitions, topic_to_partition_map,
                              topic_to_partition_offset_map_cache,
                              topic_to_partition_map',
                              topic_to_partition_offset_map_cache'))
    \/ \E partitions \in FewAssignments :
           /\ Len(notifications) < MaxNotes
           /\ PreRebalance(partitions)
           /\ notifications' =
                  Append(notifications,
                         Note("pre", partitions, topic_to_partition_map,
                              topic_to_partition_offset_map_cache,
                              topic_to_partition_map',
                              topic_to_partition_offset_map_cache'))
    \/ \E m \in OffsetMapsUpTo(1) :
           CommitOffsets(m, TRUE) /\ notifications' = <<>>
    \/ Stop("none") /\ notifications' = <<>>
    \/ Start(NoRebalance) /\ notifications' = <<>>

\* The consumer with its pre- and post-rebalance notifications.
NotifySpec ==
    /\ ConsumerInit({StateMapWithOffsets}, {FALSE}) /\ BatchInit({<<>>})
    /\ RetryInit(IdleRequestLists, {AtLeastOnce})
    /\ LedgerInit(RetryKeys) /\ IssuedInit(NoneIssued) /\ NotificationsInit(<<>>) /\ StatsInit({Stats(0, 0)})
    /\ [][NotifyNext /\ UNCHANGED <<batch_vars, retry_vars, ledger_vars, stats_vars, issued_vars>>]_vars

LifecycleNext ==
    \/ \E failure \in StopFailures : Stop(failure)
    \/ \E outcome \in StartOutcomes \cup {StartFailure} : Start(outcome)
    \/ \E partitions \in Assignments : PostRebalance(partitions)
    \/ \E topics \in TopicSources : \E outcome \in StartOutcomes :
           RefreshTopics(topics, outcome)
    \/ \E body_raised \in BOOLEAN : \E failure \in StopFailures :
           Exit(body_raised, failure)

\* The consumer's lifecycle: stop and the exit of its context with their
\* failures, start, the refresh of its topics, and the notifications, with
\* and without a post-rebalance callback.
LifecycleSpec ==
    /\ ConsumerInit(InitialStateMaps, BOOLEAN) /\ BatchInit({<<>>})
    /\ RetryInit(IdleRequestLists, {AtLeastOnce})
    /\ LedgerInit(RetryKeys) /\ IssuedInit(NoneIssued) /\ NotificationsInit(<<>>) /\ StatsInit({Stats(0, 0)})
    /\ [][LifecycleNext /\ UNCHANGED <<batch_vars, retry_vars, ledger_vars, stats_vars, issued_vars, notification_vars>>]_vars

\* commit_messages applied to every list of messages.
BatchSpec ==
    /\ ConsumerInit({EmptyMap}, {FALSE}) /\ BatchInit(MessageLists)
    /\ RetryInit(IdleRequestLists, {AtLeastOnce})
    /\ LedgerInit(RetryKeys) /\ IssuedInit(NoneIssued) /\ NotificationsInit(<<>>) /\ StatsInit({Stats(0, 0)})
    /\ [][CommitBatch /\ UNCHANGED <<consumer_vars, retry_vars, ledger_vars, stats_vars, issued_vars, notification_vars>>]_vars

\* One handler, in either mode, over its retry rounds.
RetrySpec ==
    /\ ConsumerInit({EmptyMap}, {FALSE}) /\ BatchInit({<<>>}) /\ RetryInit(RequestLists, {AtLeastOnce, ExactOnce})
    /\ LedgerInit(RetryKeys) /\ IssuedInit(NoneIssued) /\ NotificationsInit(<<>>) /\ StatsInit({Stats(0, 0)})
    /\ [][RetryNext /\ UNCHANGED <<consumer_vars, batch_vars, ledger_vars, stats_vars, issued_vars, notification_vars>>]_vars

\* One handler, in either mode, sent any responses over its retry rounds.
LedgerSpec ==
    /\ ConsumerInit({EmptyMap}, {FALSE}) /\ BatchInit({<<>>})
    /\ RetryInit(LedgerRequestLists, {AtLeastOnce, ExactOnce})
    /\ LedgerInit(RetryKeys) /\ IssuedInit(NoneIssued) /\ NotificationsInit(<<>>) /\ StatsInit({Stats(0, 0)})
    /\ [][LedgerNext /\ UNCHANGED <<consumer_vars, batch_vars, stats_vars, issued_vars, notification_vars>>]_vars

\* One handler, at least once, driven by a caller's bounded retry loop in
\* which a round with a success response is eventually run while a request
\* is outstanding.
LoopSpec ==
    /\ ConsumerInit({EmptyMap}, {FALSE}) /\ BatchInit({<<>>})
    /\ RetryInit(LoopRequestLists, {AtLeastOnce})
    /\ LedgerInit(RetryKeys) /\ IssuedInit(NoneIssued) /\ NotificationsInit(<<>>) /\ StatsInit({Stats(0, 0)})
    /\ [][LoopNext /\ UNCHANGED <<consumer_vars, batch_vars, ledger_vars, stats_vars, issued_vars, notification_vars>>]_vars
    /\ WF_vars(ProgressRound /\ UNCHANGED <<consumer_vars, batch_vars, ledger_vars, stats_vars, issued_vars, notification_vars>>)

\* _Stats addition applied to every three _Stats.
StatsSpec ==
    /\ ConsumerInit({EmptyMap}, {FALSE}) /\ BatchInit({<<>>})
    /\ RetryInit(IdleRequestLists, {AtLeastOnce})
    /\ LedgerInit(RetryKeys) /\ IssuedInit(NoneIssued) /\ NotificationsInit(<<>>) /\ StatsInit(StatsValues)
    /\ [][AddAll /\ UNCHANGED <<consumer_vars, batch_vars, retry_vars, ledger_vars, issued_vars, notification_vars>>]_vars

\* ------------------------------------------------------------------------
\* Properties
\* ------------------------------------------------------------------------

\* The offsets of the messages of a batch for one (topic, partition).
OffsetsOf(messages, k) ==
    {messages[i].offset :
        i \in {j \in DOMAIN messages :
                 messages[j].topic = k[1] /\ messages[j].partition = k[2]}}

Maximum(S) == CHOOSE x \in S : \A y \in S : y <= x

\* C1: for every list of messages, the candidate commit value that
\* commit_messages hands to commit_offsets for each (topic, partition) of the
\* list is the maximum offset of the list's messages of that topic and
\* partition, plus one.
C1_CandidateIsMaxOffsetPlusOne ==
    batch_committed =>
        /\ Keys(candidate_map) =
               {k \in TopicPartitions : OffsetsOf(batch, k) # {}}
        /\ \A k \in Keys(candidate_map) :
               candidate_map[k[1]][k[2]] = Maximum(OffsetsOf(batch, k)) + 1

\* C2: commit_offsets sends exactly the entries of its argument whose offset
\* is absent from the cache or differs from the cached one, in one broker
\* call, and makes no broker call when there is no such entry; a repeated call
\* with the same map sends nothing, and a following call sends every entry
\* whose offset it changed.
C2_CommitDiff ==
    [][last_op'.name = "commit_offsets" =>
        LET m == last_op'.offsets
            cache == topic_to_partition_offset_map_cache
            qualifying ==
                {e \in Entries(m) :
                    \/ e[1] \notin DOMAIN cache
                    \/ e[2] \notin DOMAIN cache[e[1]]
                    \/ cache[e[1]][e[2]] # e[3]}
        IN  /\ broker_calls' = IF qualifying = {} THEN <<>> ELSE <<qualifying>>
            /\ last_op.name = "commit_offsets" =>
                   /\ last_op.offsets = m => broker_calls' = <<>>
                   /\ \A e \in Entries(m) :
                          (\E d \in Entries(last_op.offsets) :
                               d[1] = e[1] /\ d[2] = e[2] /\ d[3] # e[3])
                              => Len(broker_calls') = 1 /\ e \in broker_calls'[1]
    ]_vars

\* A commit_offsets of two entries of which one was sent and one suppressed.
C2_Witness ==
    /\ last_op.name = "commit_offsets"
    /\ Cardinality(Keys(last_op.offsets)) = 2
    /\ Len(broker_calls) = 1
    /\ Cardinality(broker_calls[1]) = 1

\* C3: after a post-rebalance notification with assignment A, from any prior
\* state, the offset cache is empty and topic_to_partition_map has exactly
\* the topics of A, each with exactly the partitions A assigns to it.
C3_RebalanceReset ==
    [][last_op'.name = "post_rebalance" =>
        LET A == last_op'.partitions IN
        /\ topic_to_partition_offset_map_cache' = EmptyMap
        /\ Keys(topic_to_partition_offset_map_cache') = {}
        /\ DOMAIN topic_to_partition_map' = DOMAIN A
        /\ \A t \in DOMAIN A :
               /\ topic_to_partition_map'[t].known
               /\ topic_to_partition_map'[t].partitions = A[t]
    ]_vars

\* A notification whose assignment lacks a topic the consumer was
\* constructed with, and gives t2 its partition.
C3_Witness ==
    /\ last_op.name = "post_rebalance"
    /\ "t1" \in DOMAIN temp_topic_to_consumer_topic_state_map
    /\ DOMAIN topic_to_partition_map = {"t2"}
    /\ topic_to_partition_map["t2"] = KnownPartitions({0})

\* C4: the first entry for a (topic, partition) that commit_offsets (also
\* through commit_messages) is given after a stop, a start or a post-rebalance
\* notification is sent to the broker, whatever was cached before that event.
C4_FirstCommitAfterResetIsSent ==
    [][last_op'.name \in {"commit_offsets", "commit_messages"} =>
        \A e \in Entries(last_op'.offsets) :
            <<e[1], e[2]>> \notin committed_since_reset
                => e \in Payload(broker_calls')
    ]_vars

\* A commit of (t1, 0) that is the first since the stop before it, and sent.
C4_Witness ==
    /\ last_op.name = "commit_offsets"
    /\ ~running
    /\ committed_since_reset = {<<"t1", 0>>}
    /\ Payload(broker_calls) = {<<"t1", 0, 1>>}

\* The number of messages of the requests of a list.
MessagesIn(requests) ==
    SumOver([i \in DOMAIN requests |-> Len(requests[i].messages)],
            DOMAIN requests)

\* The places, in the requests the last call found, of the requests of key k
\* that have a success response.
Succeeded(k) ==
    {i \in DOMAIN last_call.requests_before :
        /\ KeyOf(last_call.requests_before[i]) = k
        /\ k \in DOMAIN last_call.success_responses}

\* The places, in the disputed requests of the last call, of the requests of
\* key k whose watermark count equals their number of messages.
HiddenSuccesses(k) ==
    {i \in DOMAIN last_call.disputed :
        /\ KeyOf(last_call.disputed[i]) = k
        /\ last_call.oracle[i].watermark = "count"
        /\ last_call.oracle[i].count = Len(last_call.disputed[i].messages)}

AllHiddenSuccesses == UNION {HiddenSuccesses(k) : k \in RetryKeys}

\* The cumulative stats of key k that the success responses and the hidden
\* successes of the last call add up to, from the stats before the call.
ExpectedStats(k) ==
    LET base == IF k \in DOMAIN last_call.accum_before
                THEN last_call.accum_before[k] ELSE Stats(0, 0)
        succ == Succeeded(k)
        hid == HiddenSuccesses(k)
        succ_count == [i \in succ |-> Len(last_call.requests_before[i].messages)]
        succ_offset == [i \in succ |-> last_call.success_responses[k].offset]
        hid_count == [i \in hid |-> last_call.oracle[i].count]
        hid_offset == [i \in hid |->
                          last_call.topic_offsets[k[1]] + last_call.oracle[i].count]
    IN  Stats(base.offset + SumOver(succ_offset, succ) + SumOver(hid_offset, hid),
              base.message_count + SumOver(succ_count, succ)
                  + SumOver(hid_count, hid))

\* The keys the cumulative stats have after the last call.
ExpectedKeys ==
    DOMAIN last_call.accum_before
    \cup {k \in RetryKeys : Succeeded(k) # {} \/ HiddenSuccesses(k) # {}}

\* The cumulative stats are those the last call adds up to.
AccumAsExpected ==
    /\ DOMAIN success_topic_accum_stats_map = ExpectedKeys
    /\ \A k \in ExpectedKeys : success_topic_accum_stats_map[k] = ExpectedStats(k)

\* The retry set is the disputed requests the last call retried, in order.
RetrySetIsRetried ==
    requests_to_be_sent =
        Pick(last_call.disputed, last_call.retried, Len(last_call.disputed))

\* C5: in either mode, when every request of requests_to_be_sent has a
\* success response, one call leaves requests_to_be_sent empty and adds the
\* number of messages of all these requests to total_published_message_count;
\* on a new handler the total is the number of messages of all the requests.
C5_AllSuccess ==
    (/\ rounds > 0
     /\ \A i \in DOMAIN last_call.requests_before :
            KeyOf(last_call.requests_before[i])
                \in DOMAIN last_call.success_responses)
    => /\ requests_to_be_sent = <<>>
       /\ total_published_message_count =
              SumMessageCounts(last_call.accum_before,
                               DOMAIN last_call.accum_before)
              + MessagesIn(last_call.requests_before)
       /\ rounds = 1 =>
              total_published_message_count = MessagesIn(initial_requests)

\* Two requests of one (topic, partition), both answered with a success.
C5_Witness ==
    /\ rounds = 1
    /\ Len(initial_requests) = 2
    /\ KeyOf(initial_requests[1]) = KeyOf(initial_requests[2])
    /\ KeyOf(initial_requests[1]) \in DOMAIN last_call.success_responses
    /\ requests_to_be_sent = <<>>
    /\ total_published_message_count = 5

\* C6: under the exact-once guarantee a disputed request whose watermark
\* count equals its number of messages is not retried, and
\* Stats(tracked offset of its topic + count, count) is added to the
\* cumulative stats of its (topic, partition); in the scenario of part 0
\* answered at offset 10 with 3 messages and part 1 failed with 2 messages,
\* tracked offset 7 and watermark count 2, the retry set is empty, the
\* cumulative stats are Stats(10, 3) and Stats(9, 2), the total is 5 and
\* has_unpublished_request is false.
C6_HiddenSuccess ==
    (publish_guarantee = ExactOnce /\ rounds > 0) =>
        /\ last_call.retried \cap AllHiddenSuccesses = {}
        /\ RetrySetIsRetried
        /\ \A k \in RetryKeys :
               HiddenSuccesses(k) # {} =>
                   /\ k \in DOMAIN success_topic_accum_stats_map
                   /\ success_topic_accum_stats_map[k] = ExpectedStats(k)
        /\ (/\ rounds = 1
            /\ initial_requests = <<RequestA(0, 3), RequestA(1, 2)>>
            /\ DOMAIN last_call.success_responses = {<<"topicA", 0>>}
            /\ last_call.success_responses[<<"topicA", 0>>].offset = 10
            /\ last_call.topic_offsets["topicA"] = 7
            /\ last_call.oracle = <<PublishedCount(2)>>)
           => /\ requests_to_be_sent = <<>>
              /\ success_topic_accum_stats_map =
                     [k \in {<<"topicA", 0>>, <<"topicA", 1>>} |->
                         IF k[2] = 0 THEN Stats(10, 3) ELSE Stats(9, 2)]
              /\ total_published_message_count = 5
              /\ ~has_unpublished_request

\* The scenario: part 0 answered at offset 10, part 1 found by the watermark.
C6_Witness ==
    /\ publish_guarantee = ExactOnce
    /\ rounds = 1
    /\ initial_requests = <<RequestA(0, 3), RequestA(1, 2)>>
    /\ DOMAIN last_call.success_responses = {<<"topicA", 0>>}
    /\ last_call.success_responses[<<"topicA", 0>>].offset = 10
    /\ last_call.topic_offsets["topicA"] = 7
    /\ last_call.oracle = <<PublishedCount(2)>>

UnknownAt ==
    {i \in DOMAIN last_call.disputed :
        last_call.oracle[i].watermark \in {"unknown_topic", "unknown_partitions"}}

ErrorAt ==
    {i \in DOMAIN last_call.disputed : last_call.oracle[i].watermark = "error"}

\* C10: under the exact-once guarantee, when the watermark query of a
\* disputed request fails for a reason other than an unknown topic or
\* partition, the call does not raise, the request is not retried and no
\* stats are recorded for it, and the other disputed requests of the call
\* are queried and retried or recorded as usual.
C10_WatermarkErrorDrops ==
    (publish_guarantee = ExactOnce /\ rounds > 0 /\ ErrorAt # {}) =>
        /\ last_call.raised = "none"
        /\ last_call.retried \cap ErrorAt = {}
        /\ RetrySetIsRetried
        /\ AccumAsExpected
        /\ Len(last_call.queries) = Len(last_call.disputed)
        /\ \A j \in DOMAIN last_call.disputed :
               last_call.oracle[j].watermark = "count" =>
                   (j \in last_call.retried <=> j \notin AllHiddenSuccesses)

\* A failed query for the first of two disputed requests, and the second one
\* found published.
C10_Witness ==
    /\ publish_guarantee = ExactOnce
    /\ rounds = 1
    /\ Len(last_call.disputed) = 2
    /\ last_call.oracle[1] = WatermarkError
    /\ 2 \in AllHiddenSuccesses
    /\ requests_to_be_sent = <<>>
    /\ DOMAIN success_topic_accum_stats_map = {KeyOf(last_call.disputed[2])}

\* The places, in the requests the last call found, of the requests whose
\* (topic, partition) has no response that is not an exception and carries
\* error code 0.
Unanswered ==
    {i \in DOMAIN last_call.requests_before :
        KeyOf(last_call.requests_before[i]) \notin AnsweredKeys(last_responses)}

\* The keys of the requests the last call found.
OutstandingKeys ==
    {KeyOf(last_call.requests_before[i]) : i \in DOMAIN last_call.requests_before}

\* C11: under the at-least-once guarantee, after update_unpublished_requests
\* the retry set is the requests it found, in their order, whose (topic,
\* partition) has no response that is not an exception and carries error code
\* 0; no watermark query and no metadata load is made; and a response for a
\* (topic, partition) without an outstanding request changes neither the
\* stats of the round nor the cumulative stats.
C11_AtLeastOnceRetriesUnanswered ==
    (publish_guarantee = AtLeastOnce /\ rounds > 0) =>
        /\ requests_to_be_sent =
               Pick(last_call.requests_before, Unanswered,
                    Len(last_call.requests_before))
        /\ last_call.queries = <<>>
        /\ last_call.loads = <<>>
        /\ DOMAIN success_topic_stats_map \subseteq OutstandingKeys
        /\ \A k \in RetryKeys \ OutstandingKeys :
               /\ k \in DOMAIN success_topic_accum_stats_map
                      <=> k \in DOMAIN last_call.accum_before
               /\ k \in DOMAIN success_topic_accum_stats_map =>
                      success_topic_accum_stats_map[k] = last_call.accum_before[k]

\* A second round, at least once: the one outstanding request is answered
\* with an error code and retried, beside a success response for the
\* partition that was confirmed in the first round.
C11_Witness ==
    /\ publish_guarantee = AtLeastOnce
    /\ rounds = 2
    /\ Len(last_call.requests_before) = 1
    /\ requests_to_be_sent = last_call.requests_before
    /\ \E i \in DOMAIN last_responses :
           /\ ~last_responses[i].is_exception
           /\ last_responses[i].error # 0
           /\ <<last_responses[i].topic, last_responses[i].partition>>
                  = KeyOf(last_call.requests_before[1])
    /\ \E i \in DOMAIN last_responses :
           /\ ~last_responses[i].is_exception
           /\ last_responses[i].error = 0
           /\ <<last_responses[i].topic, last_responses[i].partition>>
                  \notin OutstandingKeys

\* C12: after any sequence of calls, in either mode, the message_count of
\* every key of the cumulative stats is the number of messages of the
\* requests of that key confirmed so far, by a success response or by the
\* watermark, each counted once; a key without a confirmed request has no
\* entry.
C12_CumulativeCountIsConfirmed ==
    /\ \A k \in DOMAIN success_topic_accum_stats_map :
           /\ k \in RetryKeys
           /\ success_topic_accum_stats_map[k].message_count = confirmed_counts[k]
    /\ \A k \in RetryKeys :
           confirmed_counts[k] > 0 => k \in DOMAIN success_topic_accum_stats_map

\* Two requests of one partition confirmed in two rounds: the first by the
\* watermark, the second by a success response.
C12_Witness ==
    /\ publish_guarantee = ExactOnce
    /\ rounds = 2
    /\ initial_requests = <<RequestA(0, 2), RequestA(0, 3)>>
    /\ <<"topicA", 0>> \in DOMAIN last_call.accum_before
    /\ last_call.accum_before[<<"topicA", 0>>].message_count = 2
    /\ last_call.requests_before = <<RequestA(0, 3)>>
    /\ <<"topicA", 0>> \in AnsweredKeys(last_responses)
    /\ success_topic_accum_stats_map[<<"topicA", 0>>].message_count = 5

\* C13: _Stats addition is component-wise, associative and commutative, and
\* _Stats(0, 0) is its identity.
C13_StatsAdditionAlgebra ==
    stats_added =>
        /\ stats_sums.ab.offset = stats_a.offset + stats_b.offset
        /\ stats_sums.ab.message_count
               = stats_a.message_count + stats_b.message_count
        /\ stats_sums.ab_c = stats_sums.a_bc
        /\ stats_sums.ab = stats_sums.ba
        /\ stats_sums.a_zero = stats_a

\* Three different _Stats added.
C13_Witness ==
    /\ stats_added
    /\ stats_a = Stats(1, 2)
    /\ stats_b = Stats(2, 0)
    /\ stats_c = Stats(0, 1)
    /\ stats_sums.ab_c = Stats(3, 3)

\* The keys of the initial requests that have no cumulative stats and no
\* request left in the retry set: every request of the key was dropped.
DroppedKeys ==
    {k \in {KeyOf(initial_requests[i]) : i \in DOMAIN initial_requests} :
        /\ k \notin DOMAIN success_topic_accum_stats_map
        /\ \A i \in DOMAIN requests_to_be_sent : KeyOf(requests_to_be_sent[i]) # k}

\* C18: under the exact-once guarantee, once every request of an initial
\* (topic, partition) has been dropped without a recorded success,
\* has_unpublished_request is true, and after any further call the key is
\* still dropped and has_unpublished_request is still true, also when the
\* retry set is empty.
C18_DroppedKeepsUnpublished ==
    /\ [](publish_guarantee = ExactOnce /\ DroppedKeys # {}
             => has_unpublished_request)
    /\ [][publish_guarantee = ExactOnce =>
             /\ DroppedKeys \subseteq DroppedKeys'
             /\ DroppedKeys # {} => has_unpublished_request'
       ]_vars

\* A call on a handler whose only request was dropped in the round before,
\* given a success response for that request's partition: the retry set is
\* empty and has_unpublished_request is true.
C18_Witness ==
    /\ publish_guarantee = ExactOnce
    /\ rounds = 2
    /\ Len(initial_requests) = 1
    /\ last_call.requests_before = <<>>
    /\ requests_to_be_sent = <<>>
    /\ KeyOf(initial_requests[1]) \in AnsweredKeys(last_responses)
    /\ DroppedKeys = {KeyOf(initial_requests[1])}
    /\ has_unpublished_request

\* The topics of a list.
TopicsIn(topics) == {topics[i] : i \in DOMAIN topics}

\* C14: refresh_topics returns the topics of the source, in their order,
\* that were not in topic_to_partition_map before the call and are in it
\* after the restart; a topic the assignment delivered at the restart does
\* not contain is not returned, and no topic tracked before is returned.
C14_RefreshReturnsNewTrackedTopics ==
    [][last_op'.name = "refresh_topics" =>
        LET kept(t) == /\ t \notin DOMAIN topic_to_partition_map
                       /\ t \in DOMAIN topic_to_partition_map'
            returned == last_detail'.returned
        IN  /\ returned = SelectSeq(last_detail'.source, kept)
            /\ TopicsIn(returned) \cap DOMAIN topic_to_partition_map = {}
            /\ TopicsIn(returned) \subseteq DOMAIN topic_to_partition_map'
            /\ last_detail'.callback_calls # <<>> =>
                   TopicsIn(returned) \subseteq DOMAIN last_op'.partitions
    ]_vars

\* A consumer constructed without topics is refreshed with t1 and t2; the
\* assignment delivered at the restart has only t1, and only t1 is returned.
C14_Witness ==
    /\ last_op.name = "refresh_topics"
    /\ temp_topic_to_consumer_topic_state_map = EmptyMap
    /\ last_detail.source = <<"t1", "t2">>
    /\ DOMAIN last_op.partitions = {"t1"}
    /\ DOMAIN topic_to_partition_map = {"t1"}
    /\ last_detail.returned = <<"t1">>

\* Whether the steps hold a before b before c.
InOrder(steps, a, b, c) ==
    \E i, j, k \in DOMAIN steps :
        i < j /\ j < k /\ steps[i] = a /\ steps[j] = b /\ steps[k] = c

C16_ExitKeepsBodyException ==
    last_op.name = "__exit__" =>
        /\ Did(last_detail.steps, "stop")
        /\ last_detail.body_raised => last_op.raised = "BodyError"
        /\ (~last_detail.body_raised /\ last_detail.stop_failure # "none")
               => last_op.raised = "StopError"
        /\ (~last_detail.body_raised /\ last_detail.stop_failure = "none")
               => last_op.raised = "none"

\* The body raised and the close of the connection failed during the stop:
\* the exception of the body propagates and the consumer is still running.
C16_Witness ==
    /\ last_op.name = "__exit__"
    /\ last_detail.body_raised
    /\ last_detail.stop_failure = "close"
    /\ last_op.raised = "BodyError"
    /\ running

Holds(cache, e) ==
    /\ <<e[1], e[2]>> \in Keys(cache)
    /\ cache[e[1]][e[2]] = e[3]

\* The optimistic write: after commit_offsets the cache holds every entry of
\* the argument whether or not the broker call succeeded, an entry the cache
\* held is not sent, and a repeat of a failed commit_offsets sends nothing.
OptimisticWrite ==
    last_op'.name = "commit_offsets" =>
        /\ \A e \in Entries(last_op'.offsets) :
               /\ Holds(topic_to_partition_offset_map_cache', e)
               /\ Holds(topic_to_partition_offset_map_cache, e)
                      => e \notin Payload(broker_calls')
        /\ (/\ last_op.name = "commit_offsets"
            /\ last_op.raised = "BrokerError"
            /\ last_op'.offsets = last_op.offsets) => broker_calls' = <<>>

\* The entries whose broker call has just failed.
FailedEntries ==
    IF last_op.name = "commit_offsets" /\ last_op.raised = "BrokerError"
    THEN Payload(broker_calls) ELSE {}

\* C19 as stated: the cache is written at request time, so a repeat of a
\* failed commit_offsets sends nothing, and an entry whose broker call failed
\* stays in the cache until a stop, a start or a post-rebalance notification.
C19_OnlyResetMakesCommittable ==
    [][/\ OptimisticWrite
       /\ \A e \in FailedEntries :
              ~Holds(topic_to_partition_offset_map_cache', e)
                  => last_op'.name \in {"stop", "start", "post_rebalance"}
    ]_vars

\* C19: the cache is written at request time, so a repeat of a failed
\* commit_offsets sends nothing, and an entry whose broker call failed stays
\* in the cache until a stop, a start or a post-rebalance notification, or
\* until a commit writes another offset for its (topic, partition).
C19_CacheIsOptimistic ==
    [][/\ OptimisticWrite
       /\ \A e \in FailedEntries :
              ~Holds(topic_to_partition_offset_map_cache', e)
                  => \/ last_op'.name \in {"stop", "start", "post_rebalance"}
                     \/ /\ last_op'.name \in {"commit_offsets", "commit_messages"}
                        /\ \E d \in Entries(last_op'.offsets) :
                               d[1] = e[1] /\ d[2] = e[2] /\ d[3] # e[3]
    ]_vars

\* A commit_offsets whose broker call failed: the cache holds the offset the
\* broker never acknowledged.
C19_Witness ==
    /\ last_op.name = "commit_offsets"
    /\ last_op.raised = "BrokerError"
    /\ Payload(broker_calls) = {<<"t1", 0, 2>>}
    /\ Holds(topic_to_partition_offset_map_cache, <<"t1", 0, 2>>)

\* C20: at a post-rebalance notification topic_to_partition_map is replaced
\* and the offset cache reset, with or without a user callback; a supplied
\* callback is then called exactly once, with the assignment of the
\* notification, and finds the new map and an empty cache; without a
\* callback no call is made.
C20_CallbackAfterMapAndCache ==
    [][LET calls == last_detail'.callback_calls IN
       /\ last_op'.name = "post_rebalance" =>
              /\ topic_to_partition_map'
                     = [t \in DOMAIN last_op'.partitions |->
                           KnownPartitions(last_op'.partitions[t])]
              /\ topic_to_partition_offset_map_cache' = EmptyMap
              /\ Len(calls) = IF post_rebalance_callback THEN 1 ELSE 0
       /\ \A i \in DOMAIN calls :
              /\ calls[i].partitions = last_op'.partitions
              /\ calls[i].map
                     = [t \in DOMAIN last_op'.partitions |->
                           KnownPartitions(last_op'.partitions[t])]
              /\ calls[i].map = topic_to_partition_map'
              /\ calls[i].cache = EmptyMap
    ]_vars

\* A notification that assigns t2 to a consumer constructed with offsets of
\* t1 and a callback: the callback was called once and found t2 alone.
C20_Witness ==
    /\ last_op.name = "post_rebalance"
    /\ post_rebalance_callback
    /\ temp_topic_to_consumer_topic_state_map = StateMapWithOffsets
    /\ Len(last_detail.callback_calls) = 1
    /\ last_detail.callback_calls[1].partitions = [t \in {"t2"} |-> {0}]
    /\ DOMAIN last_detail.callback_calls[1].map = {"t2"}
    /\ last_detail.callback_calls[1].cache = EmptyMap

\* The places, in the disputed requests of the last call, of the requests
\* whose watermark query returns a count different from their number of
\* messages.
Mismatched ==
    {i \in DOMAIN last_call.disputed :
        /\ last_call.oracle[i].watermark = "count"
        /\ last_call.oracle[i].count # Len(last_call.disputed[i].messages)}

\* C21: under the exact-once guarantee a disputed request whose watermark
\* query returns a count different from its number of messages, a count
\* above zero included, is in the next retry set with all of its messages,
\* and the call records no stats for it: the cumulative stats are what the
\* success responses and the equal counts add up to, and a key whose
\* requests all have a different count has no stats of the round and the
\* cumulative stats it had before the call.
C21_CountMismatchRetriesWhole ==
    (publish_guarantee = ExactOnce /\ rounds > 0) =>
        /\ Mismatched \subseteq last_call.retried
        /\ RetrySetIsRetried
        /\ \A i \in Mismatched :
               \E j \in DOMAIN requests_to_be_sent :
                   requests_to_be_sent[j] = last_call.disputed[i]
        /\ AccumAsExpected
        /\ \A k \in RetryKeys :
               (/\ Succeeded(k) = {}
                /\ \A i \in DOMAIN last_call.disputed :
                       KeyOf(last_call.disputed[i]) = k => i \in Mismatched)
               => /\ k \notin DOMAIN success_topic_stats_map
                  /\ k \in DOMAIN success_topic_accum_stats_map
                         <=> k \in DOMAIN last_call.accum_before
                  /\ k \in DOMAIN success_topic_accum_stats_map =>
                         success_topic_accum_stats_map[k]
                             = last_call.accum_before[k]

\* Two disputed requests: one of two messages with a count of one, one of
\* three messages with a count of three; the first is retried whole.
C21_Witness ==
    /\ publish_guarantee = ExactOnce
    /\ rounds = 1
    /\ last_call.disputed = <<RequestA(0, 2), RequestA(1, 3)>>
    /\ last_call.oracle = <<PublishedCount(1), PublishedCount(3)>>
    /\ requests_to_be_sent = <<RequestA(0, 2)>>
    /\ DOMAIN success_topic_accum_stats_map = {<<"topicA", 1>>}

\* C22: once requests_to_be_sent is empty after a call, every later call,
\* with any responses and any tracked offsets, leaves it empty and leaves the
\* cumulative stats, total_published_message_count and
\* has_unpublished_request as they were.
C22_DoneIsTerminal ==
    [][(rounds > 0 /\ requests_to_be_sent = <<>>) =>
          /\ requests_to_be_sent' = <<>>
          /\ success_topic_accum_stats_map' = success_topic_accum_stats_map
          /\ total_published_message_count' = total_published_message_count
          /\ has_unpublished_request' = has_unpublished_request
      ]_vars

\* A second call on a handler whose requests were all confirmed by the
\* first, given a success response: nothing is left to send and nothing is
\* unpublished.
C22_Witness ==
    /\ rounds = 2
    /\ last_call.requests_before = <<>>
    /\ AnsweredKeys(last_responses) # {}
    /\ requests_to_be_sent = <<>>
    /\ ~has_unpublished_request
    /\ success_topic_accum_stats_map = last_call.accum_before

\* C24: a call of update_unpublished_requests removes no key from the
\* cumulative stats and lowers no key's message_count; the stats of the
\* round are rebuilt from empty, so their keys are those with a request
\* confirmed in this call; and has_unpublished_request, once false, stays
\* false.
C24_CumulativeStatsNeverShrink ==
    [][/\ \A k \in DOMAIN success_topic_accum_stats_map :
              /\ k \in DOMAIN success_topic_accum_stats_map'
              /\ success_topic_accum_stats_map'[k].message_count
                     >= success_topic_accum_stats_map[k].message_count
       /\ DOMAIN success_topic_stats_map' =
              {k \in RetryKeys : confirmed_counts'[k] > confirmed_counts[k]}
       /\ ~has_unpublished_request => ~has_unpublished_request'
      ]_vars

\* Two partitions confirmed in two rounds: the second call finds the stats
\* of partition 0, confirms partition 1, and its round stats hold partition
\* 1 only.
C24_Witness ==
    /\ rounds = 2
    /\ initial_requests = <<RequestA(0, 2), RequestA(1, 3)>>
    /\ DOMAIN last_call.accum_before = {<<"topicA", 0>>}
    /\ DOMAIN success_topic_stats_map = {<<"topicA", 1>>}
    /\ DOMAIN success_topic_accum_stats_map = {<<"topicA", 0>>, <<"topicA", 1>>}
    /\ ~has_unpublished_request

\* Whether list a is list b with some of its elements left out.
RECURSIVE IsSubSeq(_, _)
IsSubSeq(a, b) ==
    IF a = <<>> THEN TRUE
    ELSE IF b = <<>> THEN FALSE
    ELSE IF Head(a) = Head(b) THEN IsSubSeq(Tail(a), Tail(b))
    ELSE IsSubSeq(a, Tail(b))

\* C25: in both modes, after every call the new requests_to_be_sent is the
\* previous one with some requests left out, none added, repeated, moved or
\* altered; so it is always initial_requests with some requests left out;
\* and initial_requests does not change.
C25_RetrySetOnlyShrinks ==
    /\ [](IsSubSeq(requests_to_be_sent, initial_requests))
    /\ [][/\ IsSubSeq(requests_to_be_sent', requests_to_be_sent)
           /\ Len(requests_to_be_sent') <= Len(requests_to_be_sent)
           /\ initial_requests' = initial_requests
          ]_vars

\* Exactly once, two requests: both retried by the first call, the first
\* confirmed and the second retried by the second call.
C25_Witness ==
    /\ publish_guarantee = ExactOnce
    /\ rounds = 2
    /\ initial_requests = <<RequestA(0, 2), RequestA(1, 3)>>
    /\ last_call.requests_before = initial_requests
    /\ last_call.disputed = initial_requests
    /\ requests_to_be_sent = <<RequestA(1, 3)>>

\* C26: under the at-least-once guarantee, in every state of a handler,
\* before and after its calls, has_unpublished_request is true exactly when
\* requests_to_be_sent is not empty, also when two initial requests share
\* one (topic, partition).
C26_AtLeastOncePredicateAgrees ==
    publish_guarantee = AtLeastOnce =>
        (has_unpublished_request <=> requests_to_be_sent # <<>>)

\* Two requests of one partition, both confirmed by one success response.
C26_Witness ==
    /\ publish_guarantee = AtLeastOnce
    /\ rounds = 1
    /\ initial_requests = <<RequestA(0, 2), RequestA(0, 3)>>
    /\ Len(last_responses) = 2
    /\ last_responses[1].is_exception
    /\ requests_to_be_sent = <<>>
    /\ ~has_unpublished_request
    /\ total_published_message_count = 5

\* C27: in both modes, total_published_message_count never exceeds the
\* number of messages of initial_requests, and no call lowers it.
C27_TotalIsMonotoneAndBounded ==
    /\ [](total_published_message_count <= MessagesIn(initial_requests))
    /\ [][total_published_message_count' >= total_published_message_count]_vars

\* Exactly once, two requests of one partition: the first call finds the
\* first published by the watermark, the second call is given a success
\* response for the second, and the total is the five messages of both.
C27_Witness ==
    /\ publish_guarantee = ExactOnce
    /\ rounds = 2
    /\ initial_requests = <<RequestA(0, 2), RequestA(0, 3)>>
    /\ SumMessageCounts(last_call.accum_before,
                        DOMAIN last_call.accum_before) = 2
    /\ last_call.success_responses # EmptyMap
    /\ total_published_message_count = MessagesIn(initial_requests)
    /\ requests_to_be_sent = <<>>

\* C23: under the at-least-once guarantee, when the caller keeps running
\* rounds while requests_to_be_sent is not empty and a round with a success
\* response is eventually run while a request is outstanding, the handler
\* eventually has requests_to_be_sent empty and has_unpublished_request
\* false.
C23_AtLeastOnceLoopTerminates ==
    <>(requests_to_be_sent = <<>> /\ ~has_unpublished_request)

\* One request, retried after a round without a success and confirmed in
\* the next round.
C23_Witness ==
    /\ publish_guarantee = AtLeastOnce
    /\ rounds = 2
    /\ Len(initial_requests) = 1
    /\ last_call.requests_before = initial_requests
    /\ last_call.accum_before = EmptyMap
    /\ requests_to_be_sent = <<>>
    /\ ~has_unpublished_request

\* C28: in every reachable state of the consumer the (topic, partition)
\* keys of the offset cache are those for which a commit request was issued
\* to the broker since the last reset of the cache, each with the offset of
\* the most recent such request, acknowledged or not; an operation that
\* changes the cache either leaves it empty, or is a commit that adds the
\* entries of its broker call to the cache it found or, in start, to the
\* empty cache.
C28_CacheIsLastIssued ==
    /\ [](/\ Keys(topic_to_partition_offset_map_cache) = DOMAIN issued_offsets
           /\ \A k \in DOMAIN issued_offsets :
                  topic_to_partition_offset_map_cache[k[1]][k[2]]
                      = issued_offsets[k])
    /\ [][topic_to_partition_offset_map_cache'
              # topic_to_partition_offset_map_cache =>
              \/ topic_to_partition_offset_map_cache' = ResetCache
              \/ /\ last_op'.name \in {"commit_offsets", "commit_messages"}
                 /\ Payload(broker_calls') # {}
                 /\ Entries(topic_to_partition_offset_map_cache') =
                        {e \in Entries(topic_to_partition_offset_map_cache) :
                            \A f \in Payload(broker_calls') :
                                <<f[1], f[2]>> # <<e[1], e[2]>>}
                        \cup Payload(broker_calls')
              \/ /\ last_op'.name = "start"
                 /\ Payload(broker_calls') # {}
                 /\ Entries(topic_to_partition_offset_map_cache') =
                        Payload(broker_calls')
      ]_vars

\* A commit of offset 2 for a partition whose offset 1 was issued before,
\* beside the offset of another partition; the broker call fails, and the
\* cache holds the offsets issued.
C28_Witness ==
    /\ last_op.name = "commit_offsets"
    /\ last_op.raised = "BrokerError"
    /\ Payload(broker_calls) = {<<"t1", 0, 2>>}
    /\ DOMAIN issued_offsets = {<<"t1", 0>>, <<"t2", 0>>}
    /\ issued_offsets[<<"t1", 0>>] = 2
    /\ Entries(topic_to_partition_offset_map_cache)
           = {<<"t1", 0, 2>>, <<"t2", 0, issued_offsets[<<"t2", 0>>]>>}

\* C29: of the notifications handled in a row, two post-rebalance
\* notifications with the same assignment leave the same
\* topic_to_partition_map and the same, empty, offset cache, whatever was
\* handled before and between them; and a pre-rebalance notification leaves
\* the map and the cache as it found them.
C29_PostRebalanceIdempotent ==
    /\ \A i \in DOMAIN notifications : \A j \in DOMAIN notifications :
           (/\ i < j
            /\ notifications[i].kind = "post"
            /\ notifications[j].kind = "post"
            /\ notifications[i].partitions = notifications[j].partitions)
           => /\ notifications[j].map_after = notifications[i].map_after
              /\ notifications[j].cache_after = notifications[i].cache_after
              /\ notifications[j].cache_after = ResetCache
    /\ \A i \in DOMAIN notifications :
           notifications[i].kind = "pre" =>
               /\ notifications[i].map_after = notifications[i].map_before
               /\ notifications[i].cache_after = notifications[i].cache_before
    /\ notifications # <<>> =>
           /\ topic_to_partition_map
                  = notifications[Len(notifications)].map_after
           /\ topic_to_partition_offset_map_cache
                  = notifications[Len(notifications)].cache_after

\* An assignment handled, a pre-rebalance notification, and the same
\* assignment handled again; the first found offsets in the cache.
C29_Witness ==
    /\ Len(notifications) = 3
    /\ notifications[1].kind = "post"
    /\ notifications[1].cache_before # EmptyMap
    /\ notifications[2].kind = "pre"
    /\ notifications[3].kind = "post"
    /\ notifications[3].partitions = notifications[1].partitions
    /\ topic_to_partition_map = MapAfterRebalance(notifications[1].partitions)
    /\ topic_to_partition_offset_map_cache = EmptyMap

\* C30: start() on a running consumer raises the RuntimeError of
\* _start_consumer, does not call the subclass _start, and leaves running
\* true; start() on a stopped consumer resets the cache, commits the offsets
\* of the initial state map to the broker, and then runs the subclass
\* _start, and running is set only after _start returned: when _start
\* raises, running stays false.
C30_StartChecksRunning ==
    [][last_op'.name = "start" =>
          /\ cache_exists'
          /\ Payload(broker_calls') =
                 Entries(TopicMapOffsets(temp_topic_to_consumer_topic_state_map))
          /\ IF running
             THEN /\ last_op'.raised = "RuntimeError"
                  /\ ~Did(last_detail'.steps, "_start")
                  /\ running'
             ELSE \/ /\ last_op'.raised = "none"
                     /\ last_detail'.steps =
                            <<"reset_cache", "commit", "_start", "running=True">>
                     /\ running'
                  \/ /\ last_op'.raised = "StartError"
                     /\ ~Did(last_detail'.steps, "running=True")
                     /\ ~running'
      ]_vars

\* A start on a running consumer: the RuntimeError, after the offsets of
\* the initial state map were committed once more.
C30_Witness ==
    /\ last_op.name = "start"
    /\ last_op.raised = "RuntimeError"
    /\ running
    /\ last_detail.steps = <<"reset_cache", "commit">>
    /\ Payload(broker_calls) = {<<"t1", 0, 1>>}

====
